---- MODULE Spec2Model ----
(***************************************************************************)
(* CMS Medicare Advantage enrollment pipeline: build_data.py, dashboard.py *)
(* and cms_ma_enrollment_rolling_24mo.py.                                  *)
(*                                                                         *)
(* Text is modelled as a sequence of one-character strings, so that strip, *)
(* upper, lower, title and the regular-expression searches of the source    *)
(* are computed character by character.  A missing pandas value (NaN) is    *)
(* the one-element sequence NaN, which no text equals.                      *)
(***************************************************************************)
EXTENDS Integers, Sequences, FiniteSets, TLC

VARIABLES
    pc,         \* position of the component under verification
    orgRaw,     \* consolidator: the raw parent-organization cell
    orgOnce,    \* consolidator: result of one application
    orgTwice,   \* consolidator: result of applying it to its own output
    enrRaw,     \* suppression resolver: one raw ENROLLMENT cell (text or NaN)
    enrOut,     \* suppression resolver: the numeric cell it produces
    arcNames,   \* archive extractor: ZipFile.namelist(), in archive order
    arcSel,     \* archive extractor: the member read, or None
    decBytes,   \* decoder: the bytes of the selected member
    decOut,     \* decoder: what the decode loop returned or raised
    dirRaw,     \* join: directory rows as decoded, [cid, parent], in file order
    combined,   \* join: CONTRACT_ID cells of the concatenated enrollment rows
    plan_dir,   \* join: the lookup load_plan_directory returned
    joined,     \* join: rows of the dataset after the join step
    normCols,   \* normaliser: column names of one period's raw table
    normRows,   \* normaliser: number of rows of that table
    normOut,    \* normaliser: the normalised table, or the exception raised
    normEnroll, \* normaliser: the raw column renamed to ENROLLMENT, if any
    loopProg,   \* load loop: which program's main() runs
    loopIdx,    \* load loop: index of the period handled next
    cache,      \* load loop: the cache file of each period (raw/ma_scc_<period>.csv)
    frames,     \* load loop: the periods appended to the frame list, in order
    handled,    \* load loop: how the handling of each period ended
    loopState,  \* load loop: "running", "done", "aborted" by an exception,
                \* "stopped" without output, or "output" produced
    failed,     \* load loop: the dashboard's list of failed periods
    netReq,     \* load loop: the periods a network request was made for in this run
    hadCache,   \* load loop: the periods that had a parsed cache file when the run began
    run,        \* load loop: the number of the current run
    mainProg,   \* pipeline tail: the program whose join and typing steps run
    enrollTable,\* pipeline tail: the concatenated enrollment table
    dirEnv,     \* pipeline tail: what the network delivers for the directory
    planDir,    \* pipeline tail: what load_plan_directory returned
    dataset,    \* pipeline tail: the working table, finally the dataset
    dashDf,     \* comparison: the dashboard's working dataset df
    selection,  \* comparison: the sidebar's four multiselects
    filtered,   \* comparison: df[mask]
    compare,    \* comparison: compare_current and compare_previous
    kpi,        \* comparison: latest_enroll, previous_enroll, mom_delta, mom_pct
    mom,        \* comparison: the period-over-period table of Tab 4
    diagEnv,    \* diagnostics: what the network delivers for the directory
    memo,       \* diagnostics: the st.cache_data entry of load_plan_directory
    diagGlobals,\* diagnostics: _plan_dir_contract_col and _plan_dir_parent_col
    reported,   \* diagnostics: the two columns the expander names, if shown
    diagRun     \* diagnostics: the number of the current script run

orgVars == <<orgRaw, orgOnce, orgTwice>>

enrVars == <<enrRaw, enrOut>>

arcVars == <<arcNames, arcSel>>

decVars == <<decBytes, decOut>>

joinVars == <<dirRaw, combined, plan_dir, joined>>

normVars == <<normCols, normRows, normOut, normEnroll>>

loopVars == <<loopProg, loopIdx, cache, frames, handled, loopState, failed,
              netReq, hadCache, run>>

mainVars == <<mainProg, enrollTable, dirEnv, planDir, dataset>>

cmpVars == <<dashDf, selection, filtered, compare, kpi, mom>>

diagVars == <<diagEnv, memo, diagGlobals, reported, diagRun>>

vars == <<pc, orgVars, enrVars, arcVars, decVars, joinVars, normVars, loopVars, mainVars,
          cmpVars, diagVars>>

(***************************************************************************)
(* Text helpers (Python str / pandas .str semantics, ASCII range).         *)
(***************************************************************************)
NaN == <<"<NaN>">>

None == <<"<None>">>

LowerAlpha ==
    <<"a","b","c","d","e","f","g","h","i","j","k","l","m",
      "n","o","p","q","r","s","t","u","v","w","x","y","z">>

UpperAlpha ==
    <<"A","B","C","D","E","F","G","H","I","J","K","L","M",
      "N","O","P","Q","R","S","T","U","V","W","X","Y","Z">>

Digits == {"0","1","2","3","4","5","6","7","8","9"}

Whitespace == {" ", "\t", "\n"}

IsLower(c) == \E i \in 1..Len(LowerAlpha) : LowerAlpha[i] = c

IsUpper(c) == \E i \in 1..Len(UpperAlpha) : UpperAlpha[i] = c

IsCased(c) == IsLower(c) \/ IsUpper(c)

ToUpperChar(c) ==
    IF IsLower(c)
    THEN UpperAlpha[CHOOSE i \in 1..Len(LowerAlpha) : LowerAlpha[i] = c]
    ELSE c

ToLowerChar(c) ==
    IF IsUpper(c)
    THEN LowerAlpha[CHOOSE i \in 1..Len(UpperAlpha) : UpperAlpha[i] = c]
    ELSE c

\* str.upper()
Upper(s) == [i \in 1..Len(s) |-> ToUpperChar(s[i])]

\* str.lower()
Lower(s) == [i \in 1..Len(s) |-> ToLowerChar(s[i])]

\* str.capitalize(): first character upper-cased, the rest lower-cased
Capitalize(s) ==
    [i \in 1..Len(s) |-> IF i = 1 THEN ToUpperChar(s[i]) ELSE ToLowerChar(s[i])]

\* str.title(): a cased character is upper-cased when the character before it
\* is not cased, lower-cased otherwise; uncased characters are kept.
Title(s) ==
    [i \in 1..Len(s) |->
        IF i > 1 /\ IsCased(s[i-1]) THEN ToLowerChar(s[i]) ELSE ToUpperChar(s[i])]

RECURSIVE LStrip(_)
LStrip(s) ==
    IF s # <<>> /\ Head(s) \in Whitespace THEN LStrip(Tail(s)) ELSE s

RECURSIVE RStrip(_)
RStrip(s) ==
    IF s # <<>> /\ s[Len(s)] \in Whitespace
    THEN RStrip(SubSeq(s, 1, Len(s) - 1))
    ELSE s

\* str.strip()
Strip(s) == LStrip(RStrip(s))

\* Series.astype(str) on one cell: a missing value becomes the text "nan"
AsStr(v) == IF v = NaN THEN <<"n","a","n">> ELSE v

\* "pat in s" / re.search of a literal
Contains(s, pat) ==
    \E i \in 1..(Len(s) - Len(pat) + 1) : SubSeq(s, i, i + Len(pat) - 1) = pat

EndsWith(s, suf) ==
    Len(s) >= Len(suf) /\ SubSeq(s, Len(s) - Len(suf) + 1, Len(s)) = suf

(***************************************************************************)
(* Organization Consolidator.                                              *)
(***************************************************************************)
PARENT_ORG_CONSOLIDATION ==
    <<
       <<<<"U","n","i","t","e","d","h","e","a","l","t","h","c","a","r","e">>,
         <<"U","n","i","t","e","d","H","e","a","l","t","h"," ","G","r","o","u","p">>>>,
       <<<<"U","n","i","t","e","d","h","e","a","l","t","h"," ","G","r","o","u","p">>,
         <<"U","n","i","t","e","d","H","e","a","l","t","h"," ","G","r","o","u","p">>>>,
       <<<<"U","n","i","t","e","d"," ","H","e","a","l","t","h","c","a","r","e">>,
         <<"U","n","i","t","e","d","H","e","a","l","t","h"," ","G","r","o","u","p">>>>,
       <<<<"U","n","i","t","e","d"," ","H","e","a","l","t","h"," ","C","a","r","e">>,
         <<"U","n","i","t","e","d","H","e","a","l","t","h"," ","G","r","o","u","p">>>>,
       <<<<"A","a","r","p","/","U","n","i","t","e","d","h","e","a","l","t","h","c","a","r","e">>,
         <<"U","n","i","t","e","d","H","e","a","l","t","h"," ","G","r","o","u","p">>>>,
       <<<<"O","v","a","t","i","o","n","s">>,
         <<"U","n","i","t","e","d","H","e","a","l","t","h"," ","G","r","o","u","p">>>>,
       <<<<"P","a","c","i","f","i","c","a","r","e">>,
         <<"U","n","i","t","e","d","H","e","a","l","t","h"," ","G","r","o","u","p">>>>,
       <<<<"S","i","e","r","r","a"," ","H","e","a","l","t","h"," ","A","n","d"," ","L","i","f","e">>,
         <<"U","n","i","t","e","d","H","e","a","l","t","h"," ","G","r","o","u","p">>>>,
       <<<<"A","m","e","r","i","c","h","o","i","c","e">>,
         <<"U","n","i","t","e","d","H","e","a","l","t","h"," ","G","r","o","u","p">>>>,
       <<<<"C","v","s"," ","H","e","a","l","t","h"," ","C","o","r","p","o","r","a","t","i","o","n">>,
         <<"C","V","S"," ","H","e","a","l","t","h"," ","/"," ","A","e","t","n","a">>>>,
       <<<<"A","e","t","n","a">>,
         <<"C","V","S"," ","H","e","a","l","t","h"," ","/"," ","A","e","t","n","a">>>>,
       <<<<"C","v","s"," ","H","e","a","l","t","h">>,
         <<"C","V","S"," ","H","e","a","l","t","h"," ","/"," ","A","e","t","n","a">>>>,
       <<<<"A","e","t","n","a"," ","I","n","c",".">>,
         <<"C","V","S"," ","H","e","a","l","t","h"," ","/"," ","A","e","t","n","a">>>>,
       <<<<"H","u","m","a","n","a">>,
         <<"H","u","m","a","n","a">>>>,
       <<<<"H","u","m","a","n","a"," ","I","n","c",".">>,
         <<"H","u","m","a","n","a">>>>,
       <<<<"H","u","m","a","n","a"," ","I","n","c">>,
         <<"H","u","m","a","n","a">>>>,
       <<<<"E","l","e","v","a","n","c","e"," ","H","e","a","l","t","h">>,
         <<"E","l","e","v","a","n","c","e"," ","H","e","a","l","t","h">>>>,
       <<<<"A","n","t","h","e","m">>,
         <<"E","l","e","v","a","n","c","e"," ","H","e","a","l","t","h">>>>,
       <<<<"A","n","t","h","e","m",","," ","I","n","c",".">>,
         <<"E","l","e","v","a","n","c","e"," ","H","e","a","l","t","h">>>>,
       <<<<"A","n","t","h","e","m"," ","I","n","c">>,
         <<"E","l","e","v","a","n","c","e"," ","H","e","a","l","t","h">>>>,
       <<<<"C","e","n","t","e","n","e"," ","C","o","r","p","o","r","a","t","i","o","n">>,
         <<"C","e","n","t","e","n","e">>>>,
       <<<<"C","e","n","t","e","n","e">>,
         <<"C","e","n","t","e","n","e">>>>,
       <<<<"W","e","l","l","c","a","r","e">>,
         <<"C","e","n","t","e","n","e">>>>,
       <<<<"W","e","l","l","c","a","r","e"," ","H","e","a","l","t","h"," ","P","l","a","n","s">>,
         <<"C","e","n","t","e","n","e">>>>,
       <<<<"K","a","i","s","e","r"," ","F","o","u","n","d","a","t","i","o","n"," ","H","e","a","l","t","h"," ","P","l","a","n">>,
         <<"K","a","i","s","e","r"," ","P","e","r","m","a","n","e","n","t","e">>>>,
       <<<<"K","a","i","s","e","r"," ","F","o","u","n","d","a","t","i","o","n"," ","H","e","a","l","t","h"," ","P","l","a","n",","," ","I","n","c">>,
         <<"K","a","i","s","e","r"," ","P","e","r","m","a","n","e","n","t","e">>>>,
       <<<<"K","a","i","s","e","r">>,
         <<"K","a","i","s","e","r"," ","P","e","r","m","a","n","e","n","t","e">>>>,
       <<<<"C","i","g","n","a">>,
         <<"C","i","g","n","a">>>>,
       <<<<"C","i","g","n","a"," ","C","o","r","p","o","r","a","t","i","o","n">>,
         <<"C","i","g","n","a">>>>,
       <<<<"C","i","g","n","a"," ","H","e","a","l","t","h","c","a","r","e">>,
         <<"C","i","g","n","a">>>>,
       <<<<"C","i","g","n","a","-","H","e","a","l","t","h","s","p","r","i","n","g">>,
         <<"C","i","g","n","a">>>>,
       <<<<"M","o","l","i","n","a"," ","H","e","a","l","t","h","c","a","r","e">>,
         <<"M","o","l","i","n","a"," ","H","e","a","l","t","h","c","a","r","e">>>>,
       <<<<"M","o","l","i","n","a"," ","H","e","a","l","t","h","c","a","r","e",","," ","I","n","c">>,
         <<"M","o","l","i","n","a"," ","H","e","a","l","t","h","c","a","r","e">>>>,
       <<<<"S","c","a","n"," ","H","e","a","l","t","h"," ","P","l","a","n">>,
         <<"S","C","A","N"," ","H","e","a","l","t","h"," ","P","l","a","n">>>>,
       <<<<"U","p","m","c"," ","H","e","a","l","t","h"," ","P","l","a","n">>,
         <<"U","P","M","C"," ","H","e","a","l","t","h"," ","P","l","a","n">>>>
    >>

\* dict lookup used by Series.map: the value of the key, NaN when absent
MapParentOrg(t) ==
    IF \E i \in 1..Len(PARENT_ORG_CONSOLIDATION) : PARENT_ORG_CONSOLIDATION[i][1] = t
    THEN PARENT_ORG_CONSOLIDATION[
             CHOOSE i \in 1..Len(PARENT_ORG_CONSOLIDATION) :
                 PARENT_ORG_CONSOLIDATION[i][1] = t][2]
    ELSE NaN

\* Series.fillna on one cell
Fillna(v, other) == IF v = NaN THEN other ELSE v

\* dashboard.consolidate_parent_org, one cell; build_data.load_plan_directory
\* inlines the same expression
consolidate_parent_org(x) ==
    LET title == Title(Strip(x)) IN Fillna(MapParentOrg(title), title)

TableKeys == {PARENT_ORG_CONSOLIDATION[i][1] : i \in 1..Len(PARENT_ORG_CONSOLIDATION)}

TableValues == {PARENT_ORG_CONSOLIDATION[i][2] : i \in 1..Len(PARENT_ORG_CONSOLIDATION)}

\* names outside the table
OtherNames == { <<"A","c","m","e"," ","h","e","a","l","t","h"," ","p","l","a","n">>, <<"o","'","n","e","i","l","-","h","m","o"," ","3","m">> }

MaxPad == 1

CasePatterns == {"asis", "upper", "lower", "alt0", "alt1"}

\* a re-casing of s
Recase(s, p) ==
    CASE p = "asis"  -> s
      [] p = "upper" -> Upper(s)
      [] p = "lower" -> Lower(s)
      [] p = "alt0"  -> [i \in 1..Len(s) |->
                            IF i % 2 = 0 THEN ToUpperChar(s[i]) ELSE ToLowerChar(s[i])]
      [] p = "alt1"  -> [i \in 1..Len(s) |->
                            IF i % 2 = 1 THEN ToUpperChar(s[i]) ELSE ToLowerChar(s[i])]

Spaces(n) == [i \in 1..n |-> " "]

Pad(s, l, r) == Spaces(l) \o s \o Spaces(r)

OrgInputs ==
    { Pad(Recase(n, p), l, r) :
        n \in TableKeys \cup TableValues \cup OtherNames,
        p \in CasePatterns, l \in 0..MaxPad, r \in 0..MaxPad }

(***************************************************************************)
(* Enrollment Suppression Resolver.                                        *)
(***************************************************************************)
\* a numeric cell: a float64 value or NaN (null)
Num(n) == [null |-> FALSE, val |-> n]

NullNum == [null |-> TRUE, val |-> 0]

DigitSeq == <<"0","1","2","3","4","5","6","7","8","9">>

DigitValue(c) == (CHOOSE i \in 1..Len(DigitSeq) : DigitSeq[i] = c) - 1

RECURSIVE DecimalValue(_)
DecimalValue(s) ==
    IF s = <<>> THEN 0
    ELSE 10 * DecimalValue(SubSeq(s, 1, Len(s) - 1)) + DigitValue(s[Len(s)])

IsDigitText(s) == s # <<>> /\ \A i \in 1..Len(s) : s[i] \in Digits

\* pd.to_numeric(raw, errors="coerce") on one cell, for text made of digits,
\* letters, blanks and punctuation marks other than sign, point and exponent:
\* an unsigned decimal parses, everything else (the text "nan" included) is NaN
ToNumeric(s) == IF IsDigitText(s) THEN Num(DecimalValue(s)) ELSE NullNum

\* the suppression step without the test for the text "nan"
SuppressNoNanTest(cell) ==
    LET raw        == Strip(AsStr(cell))
        numeric    == ToNumeric(raw)
        suppressed == numeric.null /\ raw # <<>>
    IN  IF suppressed THEN Num(5) ELSE numeric

\* build_data.normalise / dashboard.download_period, ENROLLMENT column, one cell:
\*   raw = astype(str).str.strip(); numeric = to_numeric(raw, coerce)
\*   suppressed = numeric.isna() & raw.notna() & (raw != "") & (raw.lower() != "nan")
\*   numeric[suppressed] = 5
\* raw.notna() is always true after astype(str).
Suppress(cell) ==
    LET raw        == Strip(AsStr(cell))
        numeric    == ToNumeric(raw)
        suppressed == /\ numeric.null
                      /\ raw # <<>>
                      /\ Lower(raw) # <<"n","a","n">>
    IN  IF suppressed THEN Num(5) ELSE numeric

MaxRawLen == 3

EnrChars == {"1", "5", "*", " ", "n", "a", "N"}

RECURSIVE TextsUpTo(_, _)
TextsUpTo(chars, n) ==
    IF n = 0 THEN {<<>>}
    ELSE LET shorter == TextsUpTo(chars, n - 1)
         IN  shorter \cup {Append(t, c) : t \in shorter, c \in chars}

\* cells as read_csv(dtype=str) delivers them: NaN for an empty field, the
\* field's text otherwise
EnrInputs == {NaN} \cup (TextsUpTo(EnrChars, MaxRawLen) \ {<<>>})

(***************************************************************************)
(* Archive Extractor.                                                      *)
(***************************************************************************)
\* re.search(r"\.(csv|txt)$", n, re.I)
HasDataExt(n) ==
    \/ EndsWith(Lower(n), <<".","c","s","v">>)
    \/ EndsWith(Lower(n), <<".","t","x","t">>)

\* the skip pattern without its readme alternatives
SkipNoReadme(n) ==
    \/ Contains(Lower(n), <<"_","_","m","a","c","o","s","x">>)
    \/ Contains(Lower(n), <<".","d","s","_","s","t","o","r","e">>)

\* SKIP_RE.search(n): (read_?me|readme|__macosx|\.ds_store), re.I
SKIP_RE(n) ==
    \/ Contains(Lower(n), <<"r","e","a","d","m","e">>)
    \/ Contains(Lower(n), <<"r","e","a","d","_","m","e">>)
    \/ Contains(Lower(n), <<"_","_","m","a","c","o","s","x">>)
    \/ Contains(Lower(n), <<".","d","s","_","s","t","o","r","e">>)

\* the name preference of cms_ma_enrollment_rolling_24mo.download_and_read:
\* DATA_PREF.search(n): (scc|enrollment|enroll|ma_), re.I
DATA_PREF(n) ==
    \/ Contains(Lower(n), <<"s","c","c">>)
    \/ Contains(Lower(n), <<"e","n","r","o","l","l","m","e","n","t">>)
    \/ Contains(Lower(n), <<"e","n","r","o","l","l">>)
    \/ Contains(Lower(n), <<"m","a","_">>)

\* DATA_RE.search(n): (scc|enrollment|enroll|ma_|plan_dir|directory), re.I
DATA_RE(n) ==
    \/ DATA_PREF(n)
    \/ Contains(Lower(n), <<"p","l","a","n","_","d","i","r">>)
    \/ Contains(Lower(n), <<"d","i","r","e","c","t","o","r","y">>)

\* first pass: data extension, not skipped, not a directory entry
IsCandidate(n) == HasDataExt(n) /\ ~SKIP_RE(n) /\ ~EndsWith(n, <<"/">>)

\* second pass: data extension, not a directory entry, no "read" in the name
IsFallbackCandidate(n) ==
    /\ HasDataExt(n)
    /\ ~EndsWith(n, <<"/">>)
    /\ ~Contains(Lower(n), <<"r","e","a","d">>)

\* the two passes of the candidate list
Candidates(names) ==
    LET first == SelectSeq(names, IsCandidate)
    IN  IF first # <<>> THEN first ELSE SelectSeq(names, IsFallbackCandidate)

FetchZipSelectFirstCandidate(names) ==
    LET candidates == Candidates(names)
    IN  IF candidates = <<>> THEN None ELSE candidates[1]

\* _fetch_zip_df (build_data, dashboard): the member whose bytes are read
FetchZipSelect(names) ==
    LET candidates == Candidates(names)
        preferred  == SelectSeq(candidates, DATA_RE)
    IN  IF candidates = <<>> THEN None
        ELSE IF preferred # <<>> THEN preferred[1] ELSE candidates[1]

\* download_and_read (rolling builder): the member whose bytes are read
RollingSelect(names) ==
    LET candidates == Candidates(names)
        preferred  == SelectSeq(candidates, DATA_PREF)
    IN  IF candidates = <<>> THEN None
        ELSE IF preferred # <<>> THEN preferred[1] ELSE candidates[1]

MaxMembers == 3

MemberNames ==
    { <<"R","E","A","D","M","E",".","t","x","t">>,
      <<"d","a","t","a",".","c","s","v">>,
      <<"R","e","a","d","_","M","e",".","T","X","T">>,
      <<"_","_","M","A","C","O","S","X","/",".","_","d",".","c","s","v">>,
      <<"d","o","c","s","/">>,
      <<"S","C","C","_","2","0","2","4",".","c","s","v">>,
      <<"b","r","e","a","d",".","t","x","t">>,
      <<"d","a","t","a",".","x","l","s","x">>,
      <<"p","l","a","n","_","d","i","r",".","t","x","t">> }

RECURSIVE SeqsUpTo(_, _)
SeqsUpTo(S, n) ==
    IF n = 0 THEN {<<>>}
    ELSE LET shorter == SeqsUpTo(S, n - 1)
         IN  shorter \cup {Append(q, x) : q \in shorter, x \in S}

ArcInputs == SeqsUpTo(MemberNames, MaxMembers)

(***************************************************************************)
(* Format-Tolerant Decoder.                                                *)
(*                                                                         *)
(* A file is a sequence of bytes.  The bytes modelled are the ASCII letter *)
(* "a", the three delimiters, the line feed, and five bytes above 0x7F:    *)
(* C3 (lead byte of a two-byte UTF-8 sequence), E9 (lead byte of a         *)
(* three-byte sequence; e-acute in Latin-1 and Windows-1252), and the      *)
(* continuation bytes A9, 92 (right quote in Windows-1252, a C1 control in *)
(* Latin-1) and 81 (undefined in Windows-1252).                            *)
(***************************************************************************)
AsciiBytes == {"a", ",", "\t", "|", "\n"}

ContinuationBytes == {"A9", "92", "81"}

RECURSIVE Utf8Ok(_)
Utf8Ok(bs) ==
    IF bs = <<>> THEN TRUE
    ELSE IF bs[1] \in AsciiBytes THEN Utf8Ok(Tail(bs))
    ELSE IF bs[1] = "C3"
         THEN Len(bs) >= 2 /\ bs[2] \in ContinuationBytes
              /\ Utf8Ok(SubSeq(bs, 3, Len(bs)))
    ELSE IF bs[1] = "E9"
         THEN Len(bs) >= 3 /\ bs[2] \in ContinuationBytes
              /\ bs[3] \in ContinuationBytes
              /\ Utf8Ok(SubSeq(bs, 4, Len(bs)))
    ELSE FALSE

\* bytes.decode(enc) succeeds: latin-1 maps every byte, cp1252 has no
\* character for 0x81, utf-8-sig needs well-formed sequences
DecodeOk(bs, enc) ==
    CASE enc = "utf-8-sig" -> Utf8Ok(bs)
      [] enc = "latin-1"   -> TRUE
      [] enc = "cp1252"    -> \A i \in 1..Len(bs) : bs[i] # "81"

RECURSIVE SplitLines(_, _)
\* the lines of bs, cur being the line under construction
SplitLines(bs, cur) ==
    IF bs = <<>> THEN (IF cur = <<>> THEN <<>> ELSE <<cur>>)
    ELSE IF bs[1] = "\n" THEN <<cur>> \o SplitLines(Tail(bs), <<>>)
    ELSE SplitLines(Tail(bs), Append(cur, bs[1]))

\* skip_blank_lines=True
NonBlankLines(bs) == SelectSeq(SplitLines(bs, <<>>), LAMBDA l : l # <<>>)

FieldCount(line, sep) == 1 + Cardinality({i \in 1..Len(line) : line[i] = sep})

Max2(a, b) == IF a >= b THEN a ELSE b

Table(enc, sep, ncols, nrows) ==
    [kind |-> "table", enc |-> enc, sep |-> sep, ncols |-> ncols,
     nrows |-> nrows, exc |-> "-"]

Raised(exc) ==
    [kind |-> "raise", enc |-> "-", sep |-> "-", ncols |-> 0, nrows |-> 0,
     exc |-> exc]

NoTable ==
    [kind |-> "none", enc |-> "-", sep |-> "-", ncols |-> 0, nrows |-> 0,
     exc |-> "-"]

\* pd.read_csv(io.BytesIO(bs), dtype=str, encoding=enc, sep=sep): the header
\* is the first non-blank line and fixes the number of columns; the header
\* and the first data line may have any number of fields, a later line with
\* more fields than these is a tokenizing error; no non-blank line at all is
\* EmptyDataError
ReadCsv(bs, enc, sep) ==
    LET ls == NonBlankLines(bs)
    IN  IF ~DecodeOk(bs, enc) THEN Raised("UnicodeDecodeError")
        ELSE IF ls = <<>> THEN Raised("EmptyDataError")
        ELSE LET header   == FieldCount(ls[1], sep)
                 expected == IF Len(ls) >= 2
                             THEN Max2(header, FieldCount(ls[2], sep))
                             ELSE header
             IN  IF \E i \in 3..Len(ls) : FieldCount(ls[i], sep) > expected
                 THEN Raised("ParserError")
                 ELSE Table(enc, sep, header, Len(ls) - 1)

Encodings == <<"utf-8-sig", "latin-1", "cp1252">>

Delimiters == <<",", "\t", "|">>

\* for enc in (...): for sep in (...): the i-th combination tried
Combo(i) ==
    [enc |-> Encodings[((i - 1) \div Len(Delimiters)) + 1],
     sep |-> Delimiters[((i - 1) % Len(Delimiters)) + 1]]

NumCombos == Len(Encodings) * Len(Delimiters)

RECURSIVE FetchZipDecodeFrom(_, _)
FetchZipDecodeFrom(bs, i) ==
    IF i > NumCombos THEN NoTable
    ELSE LET r == ReadCsv(bs, Combo(i).enc, Combo(i).sep)
         IN  IF r.kind = "table" /\ r.ncols >= 2 THEN r
             ELSE FetchZipDecodeFrom(bs, i + 1)

\* the decode loop of build_data._fetch_zip_df and of dashboard._fetch_zip_df:
\* "except Exception: continue"
FetchZipDecode(bs) == FetchZipDecodeFrom(bs, 1)

RECURSIVE RollingDecodeFrom(_, _)
RollingDecodeFrom(bs, i) ==
    IF i > NumCombos THEN NoTable
    ELSE LET r == ReadCsv(bs, Combo(i).enc, Combo(i).sep)
         IN  IF r.kind = "table" /\ r.ncols >= 2 THEN r
             ELSE IF r.kind = "raise"
                     /\ r.exc \notin {"UnicodeDecodeError", "ParserError"}
                  THEN r
             ELSE RollingDecodeFrom(bs, i + 1)

\* the decode loop of cms_ma_enrollment_rolling_24mo.download_and_read:
\* "except (UnicodeDecodeError, pd.errors.ParserError): continue"; any other
\* exception leaves the function
RollingDecode(bs) == RollingDecodeFrom(bs, 1)

MaxLines == 3

MaxFields == 2

\* what the first cell of every line holds
Payloads ==
    { <<"a">>, <<"C3", "A9">>, <<"E9">>, <<"92">>, <<"81">>,
      <<"a", ",", "a">>, <<>> }

RECURSIVE RenderLine(_, _, _)
\* a line of n fields: the payload, then n - 1 fields "a"
RenderLine(sep, payload, n) ==
    IF n = 1 THEN payload
    ELSE RenderLine(sep, payload, n - 1) \o <<sep, "a">>

RECURSIVE Render(_, _, _)
\* the file whose k-th line has shape[k] fields, every line ended by a line feed
Render(sep, payload, shape) ==
    IF shape = <<>> THEN <<>>
    ELSE RenderLine(sep, payload, shape[1]) \o <<"\n">>
         \o Render(sep, payload, Tail(shape))

Shapes == SeqsUpTo(1..MaxFields, MaxLines)

DecInputs ==
    { Render(Delimiters[d], p, sh) :
        d \in 1..Len(Delimiters), p \in Payloads, sh \in Shapes }

(***************************************************************************)
(* Directory Join Engine.                                                  *)
(***************************************************************************)
IsAlnumUpper(c) == IsUpper(c) \/ c \in Digits

\* .astype(str).str.strip().str.upper().str.replace(r"[^A-Z0-9]", "", regex=True)
\* on one cell (dashboard.clean_contract_id; inlined in build_data)
clean_contract_id(v) == SelectSeq(Upper(Strip(AsStr(v))), IsAlnumUpper)

\* .dropna(subset=["CONTRACT_ID"])
DropNaCid(rows) == SelectSeq(rows, LAMBDA r : r.cid # NaN)

RECURSIVE DropDuplicatesCid(_)
\* .drop_duplicates(subset=["CONTRACT_ID"]): a row is dropped when an earlier
\* row has the same cell
DropDuplicatesCid(rows) ==
    IF rows = <<>> THEN <<>>
    ELSE LET front == SubSeq(rows, 1, Len(rows) - 1)
             last  == rows[Len(rows)]
         IN  IF \E i \in 1..Len(front) : front[i].cid = last.cid
             THEN DropDuplicatesCid(front)
             ELSE Append(DropDuplicatesCid(front), last)

\* build_data.load_plan_directory once the contract and parent columns are
\* chosen: drop missing ids, drop duplicate raw ids, then normalise the id
\* and consolidate the parent name
BuildLookup(rows) ==
    LET kept == DropDuplicatesCid(DropNaCid(rows))
    IN  [i \in 1..Len(kept) |->
            [cid    |-> clean_contract_id(kept[i].cid),
             parent |-> consolidate_parent_org(AsStr(kept[i].parent))]]

\* dashboard.load_plan_directory: the id is trimmed and upper-cased only
DashboardLookup(rows) ==
    LET kept == DropDuplicatesCid(DropNaCid(rows))
    IN  [i \in 1..Len(kept) |->
            [cid    |-> Upper(Strip(AsStr(kept[i].cid))),
             parent |-> consolidate_parent_org(
                            Title(Strip(AsStr(kept[i].parent))))]]

RECURSIVE MergeLeft(_, _)
\* DataFrame.merge(right, on="CONTRACT_ID", how="left"): one output row per
\* matching right row, in right order; one row with a missing parent when
\* nothing matches
MergeLeft(left, right) ==
    IF left = <<>> THEN <<>>
    ELSE LET key     == left[1]
             matches == SelectSeq(right, LAMBDA r : r.cid = key)
             rows    == IF matches = <<>>
                        THEN << [cid |-> key, parent |-> NaN] >>
                        ELSE [i \in 1..Len(matches) |->
                                 [cid |-> key, parent |-> matches[i].parent]]
         IN  rows \o MergeLeft(Tail(left), right)

\* rows of a dataset that was not joined
Unjoined(cells) == [i \in 1..Len(cells) |-> [cid |-> cells[i], parent |-> NaN]]

\* build_data.main, step 2 (every enrollment table here has a CONTRACT_ID
\* column)
BuildJoinRows(cells, lookup) ==
    IF lookup # <<>>
    THEN MergeLeft([i \in 1..Len(cells) |-> clean_contract_id(cells[i])], lookup)
    ELSE Unjoined(cells)

\* dashboard.py, "Load & join Plan Directory": both sides are cleaned first
DashboardJoinRows(cells, lookup) ==
    IF lookup # <<>>
    THEN MergeLeft([i \in 1..Len(cells) |-> clean_contract_id(cells[i])],
                   [i \in 1..Len(lookup) |->
                       [cid    |-> clean_contract_id(lookup[i].cid),
                        parent |-> lookup[i].parent]])
    ELSE Unjoined(cells)

MaxDirRows == 2

MaxEnrollRows == 2

\* raw contract-identifier cells
RawIds == { <<"H","1">>, <<"h","1"," ">>, <<"R","-","2">>, NaN }

RawParents == { <<"a","e","t","n","a">>, <<"A","c","m","e">> }

DirRows == [cid : RawIds, parent : RawParents]

DirInputs == SeqsUpTo(DirRows, MaxDirRows)

CombinedInputs == SeqsUpTo(RawIds, MaxEnrollRows) \ {<<>>}

(***************************************************************************)
(* Schema Normalizer.                                                      *)
(***************************************************************************)
\* canonical column names (STATE is a reserved word of TLA+)
REPORT_PERIOD == <<"R","E","P","O","R","T","_","P","E","R","I","O","D">>

ENROLLMENT == <<"E","N","R","O","L","L","M","E","N","T">>

STATE_COL == <<"S","T","A","T","E">>

COUNTY == <<"C","O","U","N","T","Y">>

CONTRACT_ID == <<"C","O","N","T","R","A","C","T","_","I","D">>

CONTRACT_NAME == <<"C","O","N","T","R","A","C","T","_","N","A","M","E">>

\* re.search of "a.*(b1|b2|...)": a occurs, and some b after the end of it
SearchThen(col, a, alts) ==
    \E i \in 1..(Len(col) - Len(a) + 1) :
        /\ SubSeq(col, i, i + Len(a) - 1) = a
        /\ \E b \in alts : Contains(SubSeq(col, i + Len(a), Len(col)), b)

InSeq(x, q) == \E i \in 1..Len(q) : q[i] = x

CountIn(x, q) == Cardinality({i \in 1..Len(q) : q[i] = x})

\* one pass of the for-loop body of build_data.normalise: the value
\* rename[col] gets, or NaN when no branch of the if/elif chain fires;
\* claimed is rename.values()
BuildRole(col, claimed) ==
    IF col = REPORT_PERIOD THEN NaN
    ELSE IF Contains(col, <<"S","T","A","T","E">>) /\ ~Contains(col, <<"F","I","P","S">>)
            /\ STATE_COL \notin claimed
         THEN STATE_COL
    ELSE IF Contains(col, <<"C","O","U","N","T","Y">>) /\ ~Contains(col, <<"F","I","P","S">>)
            /\ ~Contains(col, <<"S","T","A","T","E">>) /\ COUNTY \notin claimed
         THEN COUNTY
    ELSE IF SearchThen(col, <<"C","O","N","T","R","A","C","T">>, {<<"N","U","M","B","E","R">>, <<"I","D">>, <<"N","B","R">>, <<"N","U","M">>})
            /\ CONTRACT_ID \notin claimed
         THEN CONTRACT_ID
    ELSE IF (\/ SearchThen(col, <<"C","O","N","T","R","A","C","T">>, {<<"N","A","M","E">>, <<"N","M">>})
             \/ SearchThen(col, <<"O","R","G">>, {<<"N","A","M","E">>, <<"N","M">>}))
            /\ CONTRACT_NAME \notin claimed
         THEN CONTRACT_NAME
    ELSE IF col = <<"E","N","R","O","L","L","E","D">> /\ ENROLLMENT \notin claimed
         THEN ENROLLMENT
    ELSE IF Contains(col, <<"E","N","R","O","L","L">>) /\ ~Contains(col, <<"R","E","P","O","R","T">>)
            /\ ENROLLMENT \notin claimed
         THEN ENROLLMENT
    ELSE NaN

\* the same body in dashboard.download_period: ENROLLMENT and REPORT_PERIOD
\* are skipped and there are no enrollment branches
DashboardRole(col, claimed) ==
    IF col = REPORT_PERIOD \/ col = ENROLLMENT THEN NaN
    ELSE IF Contains(col, <<"S","T","A","T","E">>) /\ ~Contains(col, <<"F","I","P","S">>)
            /\ STATE_COL \notin claimed
         THEN STATE_COL
    ELSE IF Contains(col, <<"C","O","U","N","T","Y">>) /\ ~Contains(col, <<"F","I","P","S">>)
            /\ ~Contains(col, <<"S","T","A","T","E">>) /\ COUNTY \notin claimed
         THEN COUNTY
    ELSE IF SearchThen(col, <<"C","O","N","T","R","A","C","T">>, {<<"N","U","M","B","E","R">>, <<"I","D">>, <<"N","B","R">>, <<"N","U","M">>})
            /\ CONTRACT_ID \notin claimed
         THEN CONTRACT_ID
    ELSE IF (\/ SearchThen(col, <<"C","O","N","T","R","A","C","T">>, {<<"N","A","M","E">>, <<"N","M">>})
             \/ SearchThen(col, <<"O","R","G">>, {<<"N","A","M","E">>, <<"N","M">>}))
            /\ CONTRACT_NAME \notin claimed
         THEN CONTRACT_NAME
    ELSE NaN

RoleOf(prog, col, claimed) ==
    IF prog = "build_data" THEN BuildRole(col, claimed)
    ELSE DashboardRole(col, claimed)

RECURSIVE RenameFrom(_, _, _, _)
\* the columns after df.rename(columns=rename), rename built by the loop of
\* program prog over cols[i..]; claimed are the roles given so far
RenameFrom(cols, i, claimed, prog) ==
    IF i > Len(cols) THEN <<>>
    ELSE LET role == RoleOf(prog, cols[i], claimed)
         IN  IF role = NaN
             THEN <<cols[i]>> \o RenameFrom(cols, i + 1, claimed, prog)
             ELSE <<role>> \o RenameFrom(cols, i + 1, claimed \cup {role}, prog)

RECURSIVE BuildEnrollCol(_, _, _)
\* the key of rename whose value is ENROLLMENT after the loop of
\* build_data.normalise over cols[i..], NaN when there is none
BuildEnrollCol(cols, i, claimed) ==
    IF i > Len(cols) THEN NaN
    ELSE LET role == BuildRole(cols[i], claimed)
         IN  IF role = ENROLLMENT THEN cols[i]
             ELSE BuildEnrollCol(cols, i + 1, claimed \cup ({role} \ {NaN}))

NormTable(cols, nrows) == [kind |-> "table", cols |-> cols, nrows |-> nrows, exc |-> "-"]

NormRaised(exc) == [kind |-> "raise", cols |-> <<>>, nrows |-> 0, exc |-> exc]

NoFrame == [kind |-> "none", cols |-> <<>>, nrows |-> 0, exc |-> "-"]

KeepOrder == <<REPORT_PERIOD, ENROLLMENT, STATE_COL, COUNTY, CONTRACT_ID, CONTRACT_NAME>>

RECURSIVE KeepFrom(_, _)
\* df[keep]: for each label of keep, every column of df with that label
KeepFrom(cols, k) ==
    IF k > Len(KeepOrder) THEN <<>>
    ELSE SelectSeq(cols, LAMBDA c : c = KeepOrder[k]) \o KeepFrom(cols, k + 1)

\* keep = ["REPORT_PERIOD", "ENROLLMENT"] + the optional columns present;
\* df[keep] raises KeyError when a label of keep is no column of df
SelectKeep(cols, nrows) ==
    IF ~InSeq(ENROLLMENT, cols) \/ ~InSeq(REPORT_PERIOD, cols)
    THEN NormRaised("KeyError")
    ELSE NormTable(KeepFrom(cols, 1), nrows)

\* build_data.normalise(df, period)
BuildNormalise(cols, nrows) ==
    LET renamed == RenameFrom(cols, 1, {}, "build_data")
        withPeriod == <<REPORT_PERIOD>> \o renamed
    IN  IF InSeq(REPORT_PERIOD, renamed)
        THEN NormRaised("ValueError")       \* df.insert: column already exists
        ELSE IF CountIn(ENROLLMENT, withPeriod) > 1
        THEN NormRaised("AttributeError")   \* df["ENROLLMENT"] is a DataFrame
        ELSE SelectKeep(withPeriod, nrows)

\* enroll_col of dashboard.download_period, NaN standing for None
DashboardEnrollCol(cols) ==
    IF InSeq(<<"E","N","R","O","L","L","E","D">>, cols) THEN <<"E","N","R","O","L","L","E","D">>
    ELSE LET hits == SelectSeq(cols, LAMBDA c :
                        /\ \/ Contains(c, <<"E","N","R","O","L","L">>)
                           \/ Contains(c, <<"M","E","M","B","E","R">>)
                           \/ Contains(c, <<"B","E","N","E">>)
                        /\ ~Contains(c, <<"R","E","P","O","R","T">>))
         IN  IF hits = <<>> THEN NaN ELSE hits[1]

\* dashboard.download_period from df.insert on, followed by
\* dashboard.normalise as the load loop calls them
DashboardNormalise(cols, nrows) ==
    LET withPeriod == <<REPORT_PERIOD>> \o cols
        enroll_col == DashboardEnrollCol(withPeriod)
        enrolled   == [i \in 1..Len(withPeriod) |->
                         IF withPeriod[i] = enroll_col THEN ENROLLMENT
                         ELSE withPeriod[i]]
    IN  IF InSeq(REPORT_PERIOD, cols)
        THEN NormRaised("ValueError")
        ELSE IF CountIn(ENROLLMENT, enrolled) > 1
        THEN NormRaised("AttributeError")
        ELSE SelectKeep(RenameFrom(enrolled, 1, {}, "dashboard"), nrows)

MaxCols == 3

MaxNormRows == 2

RawColumnNames ==
    { <<"S","T","A","T","E">>, <<"C","O","U","N","T","Y">>, <<"C","O","N","T","R","A","C","T","_","I","D">>, <<"C","O","N","T","R","A","C","T","_","N","U","M","B","E","R">>,
      <<"O","R","G","A","N","I","Z","A","T","I","O","N","_","N","A","M","E">>, <<"E","N","R","O","L","L","E","D">>, <<"E","N","R","O","L","L","M","E","N","T">>,
      <<"S","S","A","_","S","T","A","T","E","_","C","O","U","N","T","Y","_","C","O","D","E">>, <<"M","E","M","B","E","R","S">>, <<"P","L","A","N","_","T","Y","P","E">> }

\* header rows of at least two distinct column names
NormInputs ==
    { q \in SeqsUpTo(RawColumnNames, MaxCols) :
        Len(q) >= 2 /\ \A i, j \in 1..Len(q) : q[i] = q[j] => i = j }

(***************************************************************************)
(* Per-period load loop of build_data.main and of the rolling builder.     *)
(*                                                                         *)
(* What the network and the files deliver for one period is an environment *)
(* record: page is the detail-page fetch, download the archive request,    *)
(* zip the archive's condition, names its member list, bytes the content   *)
(* of the member read and cols the column names of the parsed table.       *)
(***************************************************************************)
GoodCols == <<<<"S","T","A","T","E">>, <<"C","O","U","N","T","Y">>, <<"C","O","N","T","R","A","C","T","_","I","D">>, <<"E","N","R","O","L","L","E","D">>>>

NoEnrollCols == <<<<"S","T","A","T","E">>, <<"C","O","U","N","T","Y">>, <<"C","O","N","T","R","A","C","T","_","I","D">>>>

TwoEnrollCols == <<<<"S","T","A","T","E">>, <<"E","N","R","O","L","L","E","D">>, <<"E","N","R","O","L","L","M","E","N","T">>>>

GoodBytes == <<"a", ",", "a", "\n", "a", ",", "a", "\n">>

GoodEnv ==
    [page |-> "ok", download |-> "ok", zip |-> "ok",
     names |-> << <<"d","a","t","a",".","c","s","v">> >>, bytes |-> GoodBytes, cols |-> GoodCols]

\* the environments of one period, each differing from GoodEnv in one respect
Envs ==
    { GoodEnv,
      [GoodEnv EXCEPT !.page = "timeout"],           \* timeout or HTTP error status
      [GoodEnv EXCEPT !.page = "no_link"],           \* page without archive link
      [GoodEnv EXCEPT !.download = "fail"],          \* timeout or HTTP error status
      [GoodEnv EXCEPT !.zip = "bad"],                \* zipfile.BadZipFile
      [GoodEnv EXCEPT !.zip = "unsupported"],        \* NotImplementedError / RuntimeError
      [GoodEnv EXCEPT !.names = << <<"R","E","A","D","M","E",".","t","x","t">> >>], \* no data member
      [GoodEnv EXCEPT !.bytes = <<"a", "\n", "a", "\n">>],   \* one column under every delimiter
      [GoodEnv EXCEPT !.bytes = <<>>],                       \* empty member
      [GoodEnv EXCEPT !.bytes = <<"a", ",", "a", "\n">>],    \* header without rows
      [GoodEnv EXCEPT !.cols = NoEnrollCols],
      [GoodEnv EXCEPT !.cols = TwoEnrollCols] }

NoCacheFile == [state |-> "absent", nrows |-> 0, cols |-> <<>>]

UnreadableCacheFile == [state |-> "unreadable", nrows |-> 0, cols |-> <<>>]

CacheFile(nrows, cols) == [state |-> "file", nrows |-> nrows, cols |-> cols]

\* what download_period / download_and_read hands back: a table, None, or an
\* exception; cache is the period's cache file afterwards
Fetched(kind, nrows, cols, c) == [kind |-> kind, nrows |-> nrows, cols |-> cols, cache |-> c]

\* the outcome of the cache lookup at the head of download_period and of
\* download_and_read; "miss" when there is no cache file
FromCache(c) ==
    IF c.state = "file" THEN Fetched("table", c.nrows, c.cols, c)
    ELSE IF c.state = "unreadable" THEN Fetched("raise", 0, <<>>, c)
    ELSE Fetched("miss", 0, <<>>, c)

\* the tail of download_period and of download_and_read: a parsed table df
\* is written to the cache file and returned
WriteCache(df, c, e) ==
    IF df.kind = "table"
    THEN Fetched("table", df.nrows, e.cols, CacheFile(df.nrows, e.cols))
    ELSE Fetched(df.kind, 0, <<>>, c)

\* the archive and decode part of build_data._fetch_zip_df
BuildFetchZipDf(e) ==
    IF e.download # "ok" THEN NoTable
    ELSE IF e.zip = "bad" THEN NoTable
    ELSE IF e.zip = "unsupported" THEN Raised("NotImplementedError")
    ELSE IF FetchZipSelect(e.names) = None THEN NoTable
    ELSE FetchZipDecode(e.bytes)

\* build_data.download_period(period, subpage_url)
BuildDownloadPeriod(c, e) ==
    IF c.state # "absent" THEN FromCache(c)
    ELSE IF e.page # "ok" THEN Fetched("none", 0, <<>>, c)
    ELSE WriteCache(BuildFetchZipDf(e), c, e)

\* the download, archive and decode part of
\* cms_ma_enrollment_rolling_24mo.download_and_read for an archive link
RollingFetch(e) ==
    IF e.download # "ok" THEN NoTable
    ELSE IF e.zip = "bad" THEN NoTable
    ELSE IF e.zip = "unsupported" THEN Raised("NotImplementedError")
    ELSE IF RollingSelect(e.names) = None THEN NoTable
    ELSE RollingDecode(e.bytes)

\* cms_ma_enrollment_rolling_24mo.download_and_read(period, download_url)
RollingDownloadAndRead(c, e) ==
    IF c.state # "absent" THEN FromCache(c)
    ELSE WriteCache(RollingFetch(e), c, e)

\* the part of the loop body of build_data.main that follows download_period
BuildAfterDownload(df) ==
    IF df.kind = "raise" THEN [end |-> "raised", cache |-> df.cache]
    ELSE IF df.kind = "none" \/ df.nrows = 0
    THEN [end |-> "skipped", cache |-> df.cache]
    ELSE IF BuildNormalise(df.cols, df.nrows).kind = "raise"
    THEN [end |-> "raised", cache |-> df.cache]
    ELSE [end |-> "loaded", cache |-> df.cache]

\* one pass of the for-loop of build_data.main: how it ends ("loaded",
\* "skipped", "raised") and the cache file it leaves
BuildLoopBody(c, e) == BuildAfterDownload(BuildDownloadPeriod(c, e))

\* the part of the loop body of the rolling builder's main that follows
\* download_and_read
RollingAfterDownload(df) ==
    IF df.kind = "raise" THEN [end |-> "raised", cache |-> df.cache]
    ELSE IF df.kind = "none" \/ df.nrows = 0
    THEN [end |-> "skipped", cache |-> df.cache]
    ELSE [end |-> "loaded", cache |-> df.cache]

\* one pass of the for-loop of cms_ma_enrollment_rolling_24mo.main
RollingLoopBody(c, e) ==
    IF e.page # "ok" THEN [end |-> "skipped", cache |-> c]
    ELSE RollingAfterDownload(RollingDownloadAndRead(c, e))

\* the part of the dashboard's loop body from download_period on:
\* download_period inserts REPORT_PERIOD and resolves the enrollment column
\* before the loop tests df_period.empty; normalise follows for a table
\* with rows
DashboardAfterPage(df, e) ==
    IF df.kind = "raise" THEN "raised"
    ELSE IF df.kind = "none" THEN "skipped"
    ELSE IF DashboardNormalise(e.cols, df.nrows).exc \in {"ValueError", "AttributeError"}
    THEN "raised"
    ELSE IF df.nrows = 0 THEN "skipped"
    ELSE IF DashboardNormalise(e.cols, df.nrows).kind = "raise" THEN "raised"
    ELSE "loaded"

\* one pass of the dashboard's load loop; it keeps no cache file, and a
\* skipped period is appended to the failed list
DashboardLoopBody(c, e) ==
    IF e.page # "ok" THEN [end |-> "skipped", cache |-> c]
    ELSE [end |-> DashboardAfterPage(BuildFetchZipDf(e), e), cache |-> c]

LoopBody(prog, c, e) ==
    IF prog = "build_data" THEN BuildLoopBody(c, e)
    ELSE IF prog = "rolling" THEN RollingLoopBody(c, e)
    ELSE DashboardLoopBody(c, e)

\* whether the loop body sends a network request for the period:
\* build_data.download_period returns the cache file before _get_zip_url;
\* the rolling builder and the dashboard fetch the detail page first
RequestsNetwork(prog, c) ==
    IF prog = "build_data" THEN c.state = "absent" ELSE TRUE

NoFramesNever(fr) == FALSE

\* "if not frames" after the loop
NoFrames(fr) == fr = <<>>

AppendFailedNever(prog, end, fl, p) == fl

\* failed.append(period) in the dashboard's loop, for a period that ended
\* end; the command-line programs only log the skip
AppendFailed(prog, end, fl, p) ==
    IF prog = "dashboard" /\ end = "skipped" THEN Append(fl, p) ELSE fl

MaxRuns == 2

MaxPeriods == 2

Periods == 1..MaxPeriods

CacheInputs ==
    { NoCacheFile, UnreadableCacheFile, CacheFile(1, GoodCols), CacheFile(0, GoodCols) }

(***************************************************************************)
(* Pipeline tail: load_plan_directory, the directory join and the contract *)
(* type, as build_data.main and dashboard.py perform them on the           *)
(* concatenated enrollment table.                                          *)
(*                                                                         *)
(* A table is its column list and its rows.  A row carries the cells of    *)
(* the four columns the steps read or write: cid (CONTRACT_ID), parent     *)
(* (PARENT_ORGANIZATION), ptype (PLAN_TYPE_DIR) and ctype (CONTRACT_TYPE); *)
(* the cell of a column the table does not have is NaN.                    *)
(***************************************************************************)
PARENT_ORGANIZATION == <<"P","A","R","E","N","T","_","O","R","G","A","N","I","Z","A","T","I","O","N">>

PLAN_TYPE_DIR == <<"P","L","A","N","_","T","Y","P","E","_","D","I","R">>

CONTRACT_TYPE == <<"C","O","N","T","R","A","C","T","_","T","Y","P","E">>

Other == <<"O","t","h","e","r">>

CONTRACT_TYPE_MAP ==
    << << "H", <<"L","o","c","a","l"," ","M","A"," ","/"," ","H","M","O"," ","/"," ","C","o","s","t"," ","/"," ","P","A","C","E">> >>,
       << "R", <<"R","e","g","i","o","n","a","l"," ","P","P","O">> >>,
       << "S", <<"S","t","a","n","d","a","l","o","n","e"," ","P","D","P">> >>,
       << "E", <<"E","m","p","l","o","y","e","r"," ","/"," ","U","n","i","o","n"," ","D","i","r","e","c","t">> >>,
       << "9", <<"O","t","h","e","r"," ","/"," ","D","e","m","o">> >> >>

\* first_char.map(CONTRACT_TYPE_MAP) for one cell; NaN when c is no key
MapContractType(c) ==
    IF \E i \in 1..Len(CONTRACT_TYPE_MAP) : CONTRACT_TYPE_MAP[i][1] = c
    THEN CONTRACT_TYPE_MAP[CHOOSE i \in 1..Len(CONTRACT_TYPE_MAP) :
                               CONTRACT_TYPE_MAP[i][1] = c][2]
    ELSE NaN

\* .astype(str).str.strip().str.upper().str[0] for one cell; NaN for the
\* empty text
FirstChar(v) ==
    LET t == Upper(Strip(AsStr(v)))
    IN  IF t = <<>> THEN NaN ELSE t[1]

\* derive_contract_type for one cell (inlined in build_data.main)
derive_contract_type(v) == Fillna(MapContractType(FirstChar(v)), Other)

FrameRow(cid, parent, ptype, ctype) ==
    [cid |-> cid, parent |-> parent, ptype |-> ptype, ctype |-> ctype]

Frame(cols, rows) == [kind |-> "table", cols |-> cols, rows |-> rows]

FrameRaised == [kind |-> "raise", cols |-> <<>>, rows |-> <<>>]

NoDataset == [kind |-> "none", cols |-> <<>>, rows |-> <<>>]

\* pd.DataFrame(columns=["CONTRACT_ID", "PARENT_ORGANIZATION"])
EmptyLookup == Frame(<<CONTRACT_ID, PARENT_ORGANIZATION>>, <<>>)

\* next(iter(...), None) over the columns that pass a test
FirstWhere(hits) == IF hits = <<>> THEN NaN ELSE hits[1]

\* contract_col of load_plan_directory by name; the third rule, by cell
\* pattern, needs five matching rows and never fires on the directories here
ContractCol(prog, cols) ==
    LET exact == FirstWhere(SelectSeq(cols, LAMBDA c :
                    c \in ({ <<"C","O","N","T","R","A","C","T","_","N","U","M","B","E","R">>, CONTRACT_ID, <<"C","O","N","T","R","A","C","T","_","N","O">>, <<"C","O","N","T","R","A","C","T","_","N","B","R">> }
                           \cup IF prog = "dashboard" THEN { <<"C","O","N","T","R","A","C","T","N","U","M","B","E","R">> } ELSE {})))
    IN  IF exact # NaN THEN exact
        ELSE FirstWhere(SelectSeq(cols, LAMBDA c :
                SearchThen(c, <<"C","O","N","T","R","A","C","T">>, { <<"N","U","M","B","E","R">>, <<"N","U","M">>, <<"N","B","R">>, <<"I","D">>, <<"N","O">> })))

\* parent_col of load_plan_directory
ParentCol(prog, cols) ==
    LET exact == FirstWhere(SelectSeq(cols, LAMBDA c :
                    c \in ({ PARENT_ORGANIZATION }
                           \cup IF prog = "dashboard"
                                THEN { <<"P","A","R","E","N","T","_","O","R","G">>, <<"P","A","R","E","N","T","_","O","R","G","A","N","I","Z","A","T","I","O","N","_","N","A","M","E">> } ELSE {})))
        both  == FirstWhere(SelectSeq(cols, LAMBDA c : Contains(c, <<"P","A","R","E","N","T">>) /\ Contains(c, <<"O","R","G">>)))
    IN  IF exact # NaN THEN exact
        ELSE IF both # NaN THEN both
        ELSE FirstWhere(SelectSeq(cols, LAMBDA c : Contains(c, <<"P","A","R","E","N","T">>)))

\* type_col of load_plan_directory
TypeCol(cols) ==
    FirstWhere(SelectSeq(cols, LAMBDA c :
        \/ SearchThen(c, <<"P","L","A","N">>, { <<"T","Y","P","E">>, <<"T","Y","P">> })
        \/ SearchThen(c, <<"C","O","N","T","R","A","C","T">>, { <<"T","Y","P","E">>, <<"T","Y","P">> })))

\* lookup["PLAN_TYPE_DIR"].str.strip().str.title() for one cell
TitlePlanType(v) == IF v = NaN THEN NaN ELSE Title(Strip(v))

\* the lookup rows of load_plan_directory once the columns are chosen
LookupRows(prog, rows, typed) ==
    LET kept == DropDuplicatesCid(DropNaCid(rows))
    IN  [i \in 1..Len(kept) |->
            FrameRow(IF prog = "build_data" THEN clean_contract_id(kept[i].cid)
                     ELSE Upper(Strip(AsStr(kept[i].cid))),
                     IF prog = "build_data"
                     THEN consolidate_parent_org(AsStr(kept[i].parent))
                     ELSE consolidate_parent_org(Title(Strip(AsStr(kept[i].parent)))),
                     IF typed THEN TitlePlanType(kept[i].ptype) ELSE NaN,
                     NaN)]

\* load_plan_directory of program prog after the landing page was read:
\* df is what _fetch_zip_df returned, dir the directory file's columns and rows
PlanDirFrom(prog, df, dir) ==
    IF df.kind = "raise" THEN FrameRaised
    ELSE IF df.kind = "none" \/ df.nrows = 0 \/ dir.rows = <<>> THEN EmptyLookup
    ELSE IF ContractCol(prog, dir.cols) = NaN \/ ParentCol(prog, dir.cols) = NaN
    THEN EmptyLookup
    ELSE Frame(<<CONTRACT_ID, PARENT_ORGANIZATION>>
                  \o IF TypeCol(dir.cols) # NaN THEN <<PLAN_TYPE_DIR>> ELSE <<>>,
               LookupRows(prog, dir.rows, TypeCol(dir.cols) # NaN))

LoadPlanDirectoryUncaught(prog, e) ==
    IF e.page # "ok" THEN FrameRaised
    ELSE PlanDirFrom(prog, BuildFetchZipDf(e), e.dir)

\* load_plan_directory() of program prog
load_plan_directory(prog, e) ==
    IF e.page # "ok" THEN EmptyLookup
    ELSE PlanDirFrom(prog, BuildFetchZipDf(e), e.dir)

RECURSIVE MergeFrames(_, _)
\* DataFrame.merge(plan_dir, on="CONTRACT_ID", how="left") on rows: one
\* output row per matching directory row, in directory order; one row with
\* missing directory cells when nothing matches
MergeFrames(left, right) ==
    IF left = <<>> THEN <<>>
    ELSE LET key     == left[1].cid
             matches == SelectSeq(right, LAMBDA r : r.cid = key)
             rows    == IF matches = <<>>
                        THEN << FrameRow(key, NaN, NaN, NaN) >>
                        ELSE [i \in 1..Len(matches) |->
                                 FrameRow(key, matches[i].parent, matches[i].ptype, NaN)]
         IN  rows \o MergeFrames(Tail(left), right)

CleanIdsTrimOnly(rows) ==
    [i \in 1..Len(rows) |-> [rows[i] EXCEPT !.cid = Upper(Strip(AsStr(rows[i].cid)))]]

\* the frame with clean_contract_id applied to its CONTRACT_ID column
CleanIds(rows) ==
    [i \in 1..Len(rows) |-> [rows[i] EXCEPT !.cid = clean_contract_id(rows[i].cid)]]

\* "Plan directory join" of build_data.main and of dashboard.py: the
\* dashboard cleans the directory's identifiers too
JoinPlanDir(prog, t, pd) ==
    IF pd.rows # <<>> /\ InSeq(CONTRACT_ID, t.cols)
    THEN Frame(t.cols \o Tail(pd.cols),
               MergeFrames(CleanIds(t.rows),
                           IF prog = "dashboard" THEN CleanIds(pd.rows) ELSE pd.rows))
    ELSE t

\* combined["PLAN_TYPE_DIR"].notna().mean() > 0.5
WellPopulated(rows) ==
    2 * Cardinality({i \in 1..Len(rows) : rows[i].ptype # NaN}) > Len(rows)

\* "Contract type" of build_data.main and of dashboard.py
ContractTypeStep(t) ==
    IF ~InSeq(CONTRACT_ID, t.cols) THEN t
    ELSE IF InSeq(PLAN_TYPE_DIR, t.cols) /\ WellPopulated(t.rows)
    THEN Frame(Append(t.cols, CONTRACT_TYPE),
               [i \in 1..Len(t.rows) |-> [t.rows[i] EXCEPT !.ctype = t.rows[i].ptype]])
    ELSE Frame(Append(t.cols, CONTRACT_TYPE),
               [i \in 1..Len(t.rows) |->
                   [t.rows[i] EXCEPT !.ctype = derive_contract_type(t.rows[i].cid)]])

\* raw contract identifiers of enrollment rows
EnrollIds ==
    RawIds \cup { <<"S","3">>, <<"E","4">>, <<"9","5">>, <<"X","6">>, <<"-","H","1">> }

\* header rows of enrollment files, with and without a contract column
EnrollHeaders ==
    { << <<"S","T","A","T","E">>, <<"C","O","N","T","R","A","C","T","_","N","U","M","B","E","R">>, <<"P","L","A","N","_","T","Y","P","E">>, <<"E","N","R","O","L","L","E","D">> >>,
      << <<"S","T","A","T","E">>, <<"C","O","U","N","T","Y">>, <<"E","N","R","O","L","L","E","D">> >> }

\* the columns normalise leaves of a header row
NormalisedCols(prog, header) ==
    IF prog = "build_data" THEN BuildNormalise(header, 1).cols
    ELSE DashboardNormalise(header, 1).cols

\* identifier columns of up to MaxEnrollRows rows: any identifier in the
\* first row, one of two in all the others; and one column of three rows,
\* two of them of the contract the directories list
EnrollIdColumns ==
    { [i \in 1..n |-> IF i = 1 THEN a ELSE b] :
        a \in EnrollIds, b \in { <<"H","1">>, NaN }, n \in 1..MaxEnrollRows }
    \cup { << <<"X","6">>, <<"H","1">>, <<"H","1">> >> }

\* the concatenated enrollment tables: every row has an identifier cell
\* when the table has a CONTRACT_ID column, and none otherwise
EnrollTables(prog) ==
    { Frame(NormalisedCols(prog, h), [i \in 1..Len(ids) |-> FrameRow(ids[i], NaN, NaN, NaN)]) :
        h \in {x \in EnrollHeaders : InSeq(<<"C","O","N","T","R","A","C","T","_","N","U","M","B","E","R">>, x)},
        ids \in EnrollIdColumns }
    \cup
    { Frame(NormalisedCols(prog, h), [i \in 1..n |-> FrameRow(NaN, NaN, NaN, NaN)]) :
        h \in {x \in EnrollHeaders : ~InSeq(<<"C","O","N","T","R","A","C","T","_","N","U","M","B","E","R">>, x)},
        n \in 1..MaxEnrollRows }

\* header rows of directory files: with and without a plan-type column,
\* without a parent column, without a contract column
DirHeaders ==
    { << <<"C","O","N","T","R","A","C","T","_","N","U","M","B","E","R">>, <<"P","A","R","E","N","T","_","O","R","G","A","N","I","Z","A","T","I","O","N">> >>,
      << <<"C","O","N","T","R","A","C","T","_","N","U","M","B","E","R">>, <<"P","A","R","E","N","T","_","O","R","G","A","N","I","Z","A","T","I","O","N">>, <<"P","L","A","N","_","T","Y","P","E">> >>,
      << <<"C","O","N","T","R","A","C","T","_","N","U","M","B","E","R">>, <<"O","R","G","A","N","I","Z","A","T","I","O","N","_","N","A","M","E">> >>,
      << <<"P","L","A","N","_","N","A","M","E">>, <<"P","A","R","E","N","T","_","O","R","G","A","N","I","Z","A","T","I","O","N">> >> }

DirFileRows ==
    { FrameRow(cid, <<"a","e","t","n","a">>, ptype, NaN) :
        cid \in { <<"H","1">>, <<"h","-","1"," ">> }, ptype \in { NaN, <<"h","m","o">> } }

DirFile(cols, rows) == [cols |-> cols, rows |-> rows]

DirEnvOf(e, dir) ==
    [page |-> e.page, download |-> e.download, zip |-> e.zip, names |-> e.names,
     bytes |-> e.bytes, dir |-> dir]

\* what the network delivers for the directory: a readable directory file
\* of any header and rows, or one of the failures of Envs
DirEnvs ==
    { DirEnvOf(GoodEnv, DirFile(h, rows)) :
        h \in {x \in DirHeaders : ContractCol("build_data", x) # NaN /\ ParentCol("build_data", x) # NaN},
        rows \in SeqsUpTo(DirFileRows, MaxDirRows) \ {<<>>} }
    \cup
    { DirEnvOf(GoodEnv, DirFile(h, << FrameRow(<<"H","1">>, <<"a","e","t","n","a">>, <<"h","m","o">>, NaN) >>)) :
        h \in DirHeaders }
    \cup
    { DirEnvOf(e, DirFile(<< <<"C","O","N","T","R","A","C","T","_","N","U","M","B","E","R">>, <<"P","A","R","E","N","T","_","O","R","G","A","N","I","Z","A","T","I","O","N">> >>,
                          << FrameRow(<<"H","1">>, <<"a","e","t","n","a">>, NaN, NaN) >>)) :
        e \in {x \in Envs : x.cols = GoodCols} }

(***************************************************************************)
(* Dashboard filters and period comparison (dashboard.py, "Apply filters", *)
(* "KPI row" and Tab 4).                                                   *)
(*                                                                         *)
(* A row of df carries its REPORT_PERIOD (a number), its ENROLLMENT cell   *)
(* and the four columns the sidebar filters on; df has all these columns.  *)
(* ENROLLMENT values are whole numbers.  A percentage is kept in           *)
(* hundredths of a percent, the precision it is rounded and shown with.    *)
(***************************************************************************)
DfRow(period, enr, parent, state, ctype, contract) ==
    [period |-> period, enr |-> enr, parent |-> parent, state |-> state,
     ctype |-> ctype, contract |-> contract]

RECURSIVE SumEnrollment(_)
\* Series.sum() of the ENROLLMENT cells: missing cells are skipped, no
\* cells give 0
SumEnrollment(rows) ==
    IF rows = <<>> THEN 0
    ELSE (IF rows[1].enr.null THEN 0 ELSE rows[1].enr.val) + SumEnrollment(Tail(rows))

\* has_parent_org
HasParentOrg(rows) == \E i \in 1..Len(rows) : rows[i].parent # NaN

MaskWithoutContracts(rows, sel, r) ==
    /\ (sel.parents # {} /\ \E i \in 1..Len(rows) : rows[i].parent # NaN)
          => r.parent \in sel.parents
    /\ sel.types # {} => r.ctype \in sel.types
    /\ sel.states # {} => r.state \in sel.states

MaskLatestPeriod(rows, sel, r) ==
    /\ \A i \in 1..Len(rows) : rows[i].period <= r.period
    /\ (sel.parents # {} /\ \E i \in 1..Len(rows) : rows[i].parent # NaN)
          => r.parent \in sel.parents
    /\ sel.types # {} => r.ctype \in sel.types
    /\ sel.states # {} => r.state \in sel.states
    /\ sel.contracts # {} => r.contract \in sel.contracts

\* the mask of "Apply filters": every row's period is in periods_loaded;
\* an empty selection leaves its filter inactive
Mask(rows, sel, r) ==
    /\ \E i \in 1..Len(rows) : rows[i].period = r.period
    /\ (sel.parents # {} /\ HasParentOrg(rows)) => r.parent \in sel.parents
    /\ sel.types # {} => r.ctype \in sel.types
    /\ sel.states # {} => r.state \in sel.states
    /\ sel.contracts # {} => r.contract \in sel.contracts

\* filtered = df[mask]
ApplyMask(rows, sel) == SelectSeq(rows, LAMBDA r : Mask(rows, sel, r))

\* _all_periods_for_compare
PeriodsOf(rows) == {rows[i].period : i \in 1..Len(rows)}

\* filtered[filtered["REPORT_PERIOD"] == period]
OfPeriod(rows, period) == SelectSeq(rows, LAMBDA r : r.period = period)

Abs(n) == IF n < 0 THEN -n ELSE n

\* n / d rounded to the nearest whole number, ties to even, d # 0
RoundDiv(n, d) ==
    LET q    == Abs(n) \div Abs(d)
        r2   == 2 * (Abs(n) % Abs(d))
        mag  == IF r2 > Abs(d) \/ (r2 = Abs(d) /\ q % 2 = 1) THEN q + 1 ELSE q
    IN  IF (n < 0) # (d < 0) THEN -mag ELSE mag

Absent == [kind |-> "absent", val |-> 0]

Number(n) == [kind |-> "num", val |-> n]

\* a float that is infinite or not a number
NotFinite(kind) == [kind |-> kind, val |-> 0]

\* 0 stands for compare_previous = None
NoPeriod == 0

\* float division change / previous * 100 in hundredths: a zero divisor
\* gives an infinity, or not-a-number for 0 / 0
ChangePct(change, previous) ==
    IF previous # 0 THEN Number(RoundDiv(change * 10000, previous))
    ELSE IF change > 0 THEN NotFinite("inf")
    ELSE IF change < 0 THEN NotFinite("-inf")
    ELSE NotFinite("nan")

TruthyNotNone(x) == x.kind = "num"

\* the truth value of previous_enroll: None and 0.0 are false
Truthy(x) == x.kind = "num" /\ x.val # 0

\* the KPI row: previous_enroll, mom_delta and mom_pct for a current and a
\* previous period; mom_pct as f"{mom_pct:+.2f}%" shows it
KpiRow(rows, cur, prev) ==
    LET latest_enroll   == SumEnrollment(OfPeriod(rows, cur))
        previous_enroll == IF prev # NoPeriod
                           THEN Number(SumEnrollment(OfPeriod(rows, prev)))
                           ELSE Absent
        mom_delta       == IF Truthy(previous_enroll)
                           THEN Number(latest_enroll - previous_enroll.val)
                           ELSE Absent
        mom_pct         == IF Truthy(previous_enroll)
                           THEN ChangePct(latest_enroll - previous_enroll.val,
                                          previous_enroll.val)
                           ELSE Absent
    IN  [latest_enroll |-> latest_enroll, previous_enroll |-> previous_enroll,
         mom_delta |-> mom_delta, mom_pct |-> mom_pct]

\* the value of grouping column g in row r
GroupKey(r, g) == IF g = "STATE" THEN r.state ELSE r.parent

\* the index of groupby(g)["ENROLLMENT"].sum(): rows with a missing key
\* belong to no group
GroupsOf(rows, g) == {GroupKey(rows[i], g) : i \in 1..Len(rows)} \ {NaN}

GroupSum(rows, g, k) == SumEnrollment(SelectSeq(rows, LAMBDA r : GroupKey(r, g) = k))

MomRowsOuter(rows, g, cur, prev) ==
    LET curr == OfPeriod(rows, cur)
        prv  == OfPeriod(rows, prev)
    IN  { [group    |-> k,
           CURRENT  |-> GroupSum(curr, g, k),
           PREVIOUS |-> GroupSum(prv, g, k),
           CHANGE   |-> GroupSum(curr, g, k) - GroupSum(prv, g, k),
           CHANGE_PCT |-> ChangePct(GroupSum(curr, g, k) - GroupSum(prv, g, k),
                                    GroupSum(prv, g, k))] :
          k \in GroupsOf(curr, g) \cup GroupsOf(prv, g) }

\* the rows of mom in Tab 4 before sorting: one per group that has rows in
\* both periods (DataFrame(...).dropna())
MomRows(rows, g, cur, prev) ==
    LET curr == OfPeriod(rows, cur)
        prv  == OfPeriod(rows, prev)
    IN  { [group    |-> k,
           CURRENT  |-> GroupSum(curr, g, k),
           PREVIOUS |-> GroupSum(prv, g, k),
           CHANGE   |-> GroupSum(curr, g, k) - GroupSum(prv, g, k),
           CHANGE_PCT |-> ChangePct(GroupSum(curr, g, k) - GroupSum(prv, g, k),
                                    GroupSum(prv, g, k))] :
          k \in GroupsOf(curr, g) \cap GroupsOf(prv, g) }

MaxDfRows == 2

CmpPeriods == {1, 2}

EnrollmentCells == {NullNum, Num(0), Num(80), Num(100), Num(120)}

\* rows of two contracts, the second without parent organization
DfRows ==
    { DfRow(p, e, <<"A","e","t","n","a">>, <<"T","X">>, <<"R","e","g","i","o","n","a","l"," ","P","P","O">>, <<"R","1">>) : p \in CmpPeriods, e \in EnrollmentCells }
    \cup
    { DfRow(p, e, NaN, <<"C","A">>, <<"O","t","h","e","r">>, <<"X","2">>) : p \in CmpPeriods, e \in EnrollmentCells }

\* three-row tables: one state in both periods, another in one period only
DfFixtures ==
    { << DfRow(1, Num(100), <<"A","e","t","n","a">>, <<"T","X">>, <<"R","e","g","i","o","n","a","l"," ","P","P","O">>, <<"R","1">>),
         DfRow(2, e, <<"A","e","t","n","a">>, <<"T","X">>, <<"R","e","g","i","o","n","a","l"," ","P","P","O">>, <<"R","1">>),
         DfRow(p, Num(80), NaN, <<"C","A">>, <<"O","t","h","e","r">>, <<"X","2">>) >> :
        e \in {Num(0), Num(120)}, p \in CmpPeriods }

DfInputs == (SeqsUpTo(DfRows, MaxDfRows) \ {<<>>}) \cup DfFixtures

\* the states of the sidebar: each multiselect empty or holding one option
Selections ==
    [parents : {{}, { <<"A","e","t","n","a">> }}, states : {{}, { <<"T","X">> }},
     types : {{}, { <<"O","t","h","e","r">> }}, contracts : {{}, { <<"R","1">> }}]

\* the states the sidebar can be in for df: the options of a multiselect
\* are the values left by the multiselects above it
SidebarStates(rows) ==
    { sel \in Selections :
        LET all_parents == {rows[i].parent : i \in 1..Len(rows)} \ {NaN}
            byParent    == IF sel.parents # {}
                           THEN SelectSeq(rows, LAMBDA r : r.parent \in sel.parents)
                           ELSE rows
            byState     == IF sel.states # {}
                           THEN SelectSeq(byParent, LAMBDA r : r.state \in sel.states)
                           ELSE byParent
            byType      == IF sel.types # {}
                           THEN SelectSeq(byState, LAMBDA r : r.ctype \in sel.types)
                           ELSE byState
        IN  /\ sel.parents \subseteq all_parents
            /\ sel.states \subseteq {byParent[i].state : i \in 1..Len(byParent)}
            /\ sel.types \subseteq {byParent[i].ctype : i \in 1..Len(byParent)}
            /\ sel.contracts \subseteq {byType[i].contract : i \in 1..Len(byType)} }

NoSelection == [parents |-> {}, states |-> {}, types |-> {}, contracts |-> {}]

NoKpi ==
    [latest_enroll |-> 0, previous_enroll |-> Absent, mom_delta |-> Absent,
     mom_pct |-> Absent]

(***************************************************************************)
(* Join diagnostics of the dashboard (dashboard.py, module-level globals,  *)
(* load_plan_directory under st.cache_data, "Debug expander").             *)
(*                                                                         *)
(* Streamlit executes the script from its first line on every run.  A      *)
(* call of a st.cache_data function whose entry is stored returns the      *)
(* entry and does not execute the function body.  The enrollment table is  *)
(* taken to have a CONTRACT_ID column.                                     *)
(***************************************************************************)
\* _plan_dir_contract_col: str = "" and _plan_dir_parent_col: str = ""
ResetGlobals == [contract_col |-> <<>>, parent_col |-> <<>>]

NotFound == <<"(","n","o","t"," ","f","o","u","n","d",")">>

\* the globals after the body of dashboard.load_plan_directory has run in
\* environment e, g being their values before
GlobalsAfterBody(e, g) ==
    IF e.page # "ok" THEN g
    ELSE IF BuildFetchZipDf(e).kind # "table" \/ BuildFetchZipDf(e).nrows = 0
            \/ e.dir.rows = <<>>
    THEN g
    ELSE [contract_col |-> Fillna(ContractCol("dashboard", e.dir.cols), NotFound),
          parent_col   |-> Fillna(ParentCol("dashboard", e.dir.cols), NotFound)]

\* nothing was reported: the expander is only built in the join branch
NoReport == [shown |-> FALSE, contract_col |-> <<>>, parent_col |-> <<>>]

\* "Contract col detected as" / "Parent org col detected as"
Report(g) == [shown |-> TRUE, contract_col |-> g.contract_col, parent_col |-> g.parent_col]

(***************************************************************************)
(* Each component is verified under its own specification; the variables   *)
(* of the other components rest at these values meanwhile.                 *)
(***************************************************************************)
OrgIdle == orgRaw = <<>> /\ orgOnce = None /\ orgTwice = None

EnrIdle == enrRaw = NaN /\ enrOut = NullNum

ArcIdle == arcNames = <<>> /\ arcSel = None

DecIdle == decBytes = <<>> /\ decOut = NoTable

JoinIdle == dirRaw = <<>> /\ combined = <<>> /\ plan_dir = <<>> /\ joined = <<>>

NormIdle == normCols = <<>> /\ normRows = 0 /\ normOut = NoFrame /\ normEnroll = NaN

LoopIdle ==
    /\ loopProg = "-" /\ loopIdx = 0 /\ cache = <<>>
    /\ frames = <<>> /\ handled = <<>> /\ loopState = "-"
    /\ failed = <<>> /\ netReq = {} /\ hadCache = {} /\ run = 0

MainIdle ==
    /\ mainProg = "-" /\ enrollTable = NoDataset /\ dirEnv = <<>>
    /\ planDir = NoDataset /\ dataset = NoDataset

CmpIdle ==
    /\ dashDf = <<>> /\ selection = NoSelection /\ filtered = <<>>
    /\ compare = [cur |-> NoPeriod, prev |-> NoPeriod, by |-> "-"]
    /\ kpi = NoKpi /\ mom = {}

DiagIdle ==
    /\ diagEnv = <<>> /\ memo = NoDataset /\ diagGlobals = ResetGlobals
    /\ reported = NoReport /\ diagRun = 0

IdleExcept(c) ==
    /\ c = "org" \/ OrgIdle
    /\ c = "enr" \/ EnrIdle
    /\ c = "arc" \/ ArcIdle
    /\ c = "dec" \/ DecIdle
    /\ c = "join" \/ JoinIdle
    /\ c = "norm" \/ NormIdle
    /\ c = "loop" \/ LoopIdle
    /\ c = "main" \/ MainIdle
    /\ c = "cmp" \/ CmpIdle
    /\ c = "diag" \/ DiagIdle

\* the variables a component's actions leave alone
notOrg == <<enrVars, arcVars, decVars, joinVars, normVars, loopVars, mainVars, cmpVars, diagVars>>

notEnr == <<orgVars, arcVars, decVars, joinVars, normVars, loopVars, mainVars, cmpVars, diagVars>>

notArc == <<orgVars, enrVars, decVars, joinVars, normVars, loopVars, mainVars, cmpVars, diagVars>>

notDec == <<orgVars, enrVars, arcVars, joinVars, normVars, loopVars, mainVars, cmpVars, diagVars>>

notJoin == <<orgVars, enrVars, arcVars, decVars, normVars, loopVars, mainVars, cmpVars, diagVars>>

notNorm == <<orgVars, enrVars, arcVars, decVars, joinVars, loopVars, mainVars, cmpVars, diagVars>>

notLoop == <<orgVars, enrVars, arcVars, decVars, joinVars, normVars, mainVars, cmpVars, diagVars>>

notMain == <<orgVars, enrVars, arcVars, decVars, joinVars, normVars, loopVars, cmpVars, diagVars>>

notCmp == <<orgVars, enrVars, arcVars, decVars, joinVars, normVars, loopVars, mainVars, diagVars>>

notDiag == <<orgVars, enrVars, arcVars, decVars, joinVars, normVars, loopVars, mainVars, cmpVars>>

(***************************************************************************)
(* Specification of the Organization Consolidator.                         *)
(***************************************************************************)
InitOrg ==
    /\ pc = "org_start"
    /\ orgRaw \in OrgInputs
    /\ orgOnce = None
    /\ orgTwice = None
    /\ IdleExcept("org")

\* the parent-organization column of the lookup is consolidated
Consolidate ==
    /\ pc = "org_start"
    /\ orgOnce' = consolidate_parent_org(AsStr(orgRaw))
    /\ pc' = "org_once"
    /\ UNCHANGED <<orgRaw, orgTwice, notOrg>>

\* the consolidator applied to its own output
ConsolidateAgain ==
    /\ pc = "org_once"
    /\ orgTwice' = consolidate_parent_org(orgOnce)
    /\ pc' = "org_twice"
    /\ UNCHANGED <<orgRaw, orgOnce, notOrg>>

NextOrg == Consolidate \/ ConsolidateAgain

SpecOrg == InitOrg /\ [][NextOrg]_vars

\* C4: the consolidator is idempotent: applying it to its own output gives
\* that output again, for every input name (table keys, canonical names,
\* other names).
C4_Idempotent == pc = "org_twice" => orgTwice = orgOnce

\* x is the key k re-cased in any way, with up to MaxPad blanks on either side
IsVariantOf(x, k) ==
    \E l \in 0..MaxPad, r \in 0..MaxPad :
        /\ Len(x) = l + Len(k) + r
        /\ \A i \in 1..Len(x) :
              IF i <= l \/ i > l + Len(k)
              THEN x[i] = " "
              ELSE ToLowerChar(x[i]) = ToLowerChar(k[i - l])

\* C5: every re-casing and every whitespace padding of a key of the
\* consolidation table is mapped to the canonical name of that key.
C5_CaseAndPaddingInsensitive ==
    pc # "org_start" =>
        \A i \in 1..Len(PARENT_ORG_CONSOLIDATION) :
            IsVariantOf(orgRaw, PARENT_ORG_CONSOLIDATION[i][1])
                => orgOnce = PARENT_ORG_CONSOLIDATION[i][2]

\* C5 witness: an upper-cased, padded variant of a key, different from the
\* key itself, has been consolidated to the key's canonical name.
C5_Witness ==
    /\ pc = "org_once"
    /\ \E k \in TableKeys :
          /\ orgRaw = Pad(Recase(k, "upper"), MaxPad, MaxPad)
          /\ IsVariantOf(orgRaw, k)
          /\ orgRaw # k
          /\ orgOnce = MapParentOrg(k)
          /\ orgOnce # k

(***************************************************************************)
(* Specification of the Enrollment Suppression Resolver.                   *)
(***************************************************************************)
InitEnr ==
    /\ pc = "enr_start"
    /\ enrRaw \in EnrInputs
    /\ enrOut = NullNum
    /\ IdleExcept("enr")

ResolveSuppression ==
    /\ pc = "enr_start"
    /\ enrOut' = Suppress(enrRaw)
    /\ pc' = "enr_done"
    /\ UNCHANGED <<enrRaw, notEnr>>

NextEnr == ResolveSuppression

SpecEnr == InitEnr /\ [][NextEnr]_vars

\* C3: a numeric text maps to its value; a text that is not numeric, not
\* empty after trimming and not "nan" maps to 5; an empty or missing value
\* maps to null, never to 5.
C3_SuppressionCases ==
    pc = "enr_done" =>
        LET text == IF enrRaw = NaN THEN <<>> ELSE Strip(enrRaw)
        IN  /\ IsDigitText(text) =>
                /\ ~enrOut.null
                /\ enrOut.val = DecimalValue(text)
            /\ (text # <<>> /\ ~IsDigitText(text) /\ Lower(text) # <<"n","a","n">>) =>
                enrOut = Num(5)
            /\ (enrRaw = NaN \/ text = <<>>) =>
                /\ enrOut.null
                /\ enrOut # Num(5)

\* C3 witness: a suppression marker has been imputed to 5.
C3_Witness ==
    /\ pc = "enr_done"
    /\ enrRaw = <<"*">>
    /\ enrOut = Num(5)

(***************************************************************************)
(* Specification of the Archive Extractor.                                 *)
(***************************************************************************)
InitArc ==
    /\ pc = "arc_start"
    /\ arcNames \in ArcInputs
    /\ arcSel = None
    /\ IdleExcept("arc")

\* build_data._fetch_zip_df / dashboard._fetch_zip_df open the archive
FetchZipExtract ==
    /\ pc = "arc_start"
    /\ arcSel' = FetchZipSelect(arcNames)
    /\ pc' = "arc_fetch_zip_df"
    /\ UNCHANGED <<arcNames, notArc>>

\* cms_ma_enrollment_rolling_24mo.download_and_read opens the archive
RollingExtract ==
    /\ pc = "arc_start"
    /\ arcSel' = RollingSelect(arcNames)
    /\ pc' = "arc_download_and_read"
    /\ UNCHANGED <<arcNames, notArc>>

NextArc == FetchZipExtract \/ RollingExtract

SpecArc == InitArc /\ [][NextArc]_vars

ArcDone == pc \in {"arc_fetch_zip_df", "arc_download_and_read"}

NameHasReadme(n) == Contains(Lower(n), <<"r","e","a","d","m","e">>)

IsMacArtifact(n) ==
    \/ Contains(Lower(n), <<"_","_","m","a","c","o","s","x">>)
    \/ Contains(Lower(n), <<".","d","s","_","s","t","o","r","e">>)

IsDirEntry(n) == n # <<>> /\ n[Len(n)] = "/"

README_txt == <<"R","E","A","D","M","E",".","t","x","t">>

data_csv == <<"d","a","t","a",".","c","s","v">>

\* the README.txt / data.csv archive scenarios
C8_Scenarios ==
    /\ arcNames = <<README_txt, data_csv>> => arcSel = data_csv
    /\ (/\ \E i \in 1..Len(arcNames) : arcNames[i] = README_txt
        /\ \A i \in 1..Len(arcNames) :
              HasDataExt(arcNames[i]) => arcNames[i] = README_txt)
          => arcSel = None

InitDec ==
    /\ pc = "dec_start"
    /\ decBytes \in DecInputs
    /\ decOut = NoTable
    /\ IdleExcept("dec")

\* build_data._fetch_zip_df decodes the member
BuildDataDecode ==
    /\ pc = "dec_start"
    /\ decOut' = FetchZipDecode(decBytes)
    /\ pc' = "dec_build_data"
    /\ UNCHANGED <<decBytes, notDec>>

\* dashboard._fetch_zip_df decodes the member
DashboardDecode ==
    /\ pc = "dec_start"
    /\ decOut' = FetchZipDecode(decBytes)
    /\ pc' = "dec_dashboard"
    /\ UNCHANGED <<decBytes, notDec>>

\* cms_ma_enrollment_rolling_24mo.download_and_read decodes the member
RollingBuilderDecode ==
    /\ pc = "dec_start"
    /\ decOut' = RollingDecode(decBytes)
    /\ pc' = "dec_rolling"
    /\ UNCHANGED <<decBytes, notDec>>

NextDec == BuildDataDecode \/ DashboardDecode \/ RollingBuilderDecode

SpecDec == InitDec /\ [][NextDec]_vars

DecDone == pc \in {"dec_build_data", "dec_dashboard", "dec_rolling"}

\* combination i decodes without error and parses to at least two columns
ComboSucceeds(bs, i) ==
    LET r == ReadCsv(bs, Combo(i).enc, Combo(i).sep)
    IN  r.kind = "table" /\ r.ncols >= 2

\* C6: the decoder returns the table of the first of the nine combinations,
\* encodings outer and delimiters inner, that decodes and parses to at least
\* two columns; it never returns a single-column table; it returns the
\* failure value exactly when no combination succeeds.
C6_FirstSuccessfulCombination ==
    DecDone =>
        /\ \A i \in 1..NumCombos :
              (ComboSucceeds(decBytes, i)
                 /\ \A j \in 1..(i - 1) : ~ComboSucceeds(decBytes, j))
              => decOut = ReadCsv(decBytes, Combo(i).enc, Combo(i).sep)
        /\ decOut.kind = "table" => decOut.ncols >= 2
        /\ decOut = NoTable <=> \A i \in 1..NumCombos : ~ComboSucceeds(decBytes, i)

\* a table of at least two columns and at least one data row, every line
\* with the same number of fields
RectangularShapes ==
    { sh \in Shapes :
        /\ Len(sh) >= 2
        /\ sh[1] >= 2
        /\ \A k \in 1..Len(sh) : sh[k] = sh[1] }

IsFixture(bs, sep, payload) ==
    \E sh \in RectangularShapes : bs = Render(sep, payload, sh)

\* C7: the comma-separated UTF-8 fixture resolves to comma and utf-8-sig, the
\* tab-separated Latin-1 fixture to tab and latin-1, the pipe-separated
\* Windows-1252 fixture to pipe and cp1252; none to a single column.
C7_FixturesResolveToOwnPair ==
    DecDone =>
        /\ IsFixture(decBytes, ",", <<"C3", "A9">>) =>
              /\ decOut.kind = "table" /\ decOut.ncols >= 2
              /\ decOut.sep = "," /\ decOut.enc = "utf-8-sig"
        /\ IsFixture(decBytes, "\t", <<"E9">>) =>
              /\ decOut.kind = "table" /\ decOut.ncols >= 2
              /\ decOut.sep = "\t" /\ decOut.enc = "latin-1"
        /\ IsFixture(decBytes, "|", <<"92">>) =>
              /\ decOut.kind = "table" /\ decOut.ncols >= 2
              /\ decOut.sep = "|" /\ decOut.enc = "cp1252"

(***************************************************************************)
(* Specification of the Directory Join Engine.                             *)
(***************************************************************************)
InitJoin ==
    /\ pc = "join_start"
    /\ dirRaw \in DirInputs
    /\ combined \in CombinedInputs
    /\ plan_dir = <<>>
    /\ joined = <<>>
    /\ IdleExcept("join")

\* build_data.load_plan_directory
BuildLoadPlanDirectory ==
    /\ pc = "join_start"
    /\ plan_dir' = BuildLookup(dirRaw)
    /\ pc' = "join_build_dir"
    /\ UNCHANGED <<dirRaw, combined, joined, notJoin>>

\* dashboard.load_plan_directory
DashboardLoadPlanDirectory ==
    /\ pc = "join_start"
    /\ plan_dir' = DashboardLookup(dirRaw)
    /\ pc' = "join_dash_dir"
    /\ UNCHANGED <<dirRaw, combined, joined, notJoin>>

\* build_data.main, "Plan directory join"
BuildJoin ==
    /\ pc = "join_build_dir"
    /\ joined' = BuildJoinRows(combined, plan_dir)
    /\ pc' = "join_build_done"
    /\ UNCHANGED <<dirRaw, combined, plan_dir, notJoin>>

\* dashboard.py, "Load & join Plan Directory"
DashboardJoin ==
    /\ pc = "join_dash_dir"
    /\ joined' = DashboardJoinRows(combined, plan_dir)
    /\ pc' = "join_dash_done"
    /\ UNCHANGED <<dirRaw, combined, plan_dir, notJoin>>

NextJoin ==
    \/ BuildLoadPlanDirectory
    \/ DashboardLoadPlanDirectory
    \/ BuildJoin
    \/ DashboardJoin

SpecJoin == InitJoin /\ [][NextJoin]_vars

DirLoaded == pc \in {"join_build_dir", "join_dash_dir"}

JoinDone == pc \in {"join_build_done", "join_dash_done"}

\* the join key of a cell: trimmed, upper-cased, non-alphanumerics removed
JoinKey(v) == SelectSeq(Upper(Strip(AsStr(v))), LAMBDA c : IsUpper(c) \/ c \in Digits)

\* C1: the join keeps the row count, for every enrollment table and every
\* directory table, directories whose raw identifiers differ only by case,
\* whitespace or punctuation included.
C1_JoinKeepsRowCount == JoinDone => Len(joined) = Len(combined)

\* C2: in the lookup handed to the join no two entries have the same
\* normalized contract_id, and of several raw rows with one key the entry
\* kept is the first in directory order.
C2_LookupKeyUnique ==
    DirLoaded =>
        /\ \A i, j \in 1..Len(plan_dir) :
              JoinKey(plan_dir[i].cid) = JoinKey(plan_dir[j].cid) => i = j
        /\ \A i \in 1..Len(plan_dir) :
              LET k == CHOOSE n \in 1..Len(dirRaw) :
                          /\ dirRaw[n].cid # NaN
                          /\ JoinKey(dirRaw[n].cid) = JoinKey(plan_dir[i].cid)
                          /\ \A m \in 1..(n - 1) :
                                dirRaw[m].cid = NaN
                                \/ JoinKey(dirRaw[m].cid) # JoinKey(plan_dir[i].cid)
              IN  plan_dir[i].parent = consolidate_parent_org(AsStr(dirRaw[k].parent))

(***************************************************************************)
(* Specification of the Schema Normalizer.                                 *)
(***************************************************************************)
InitNorm ==
    /\ pc = "norm_start"
    /\ normCols \in NormInputs
    /\ normRows \in 1..MaxNormRows
    /\ normOut = NoFrame
    /\ normEnroll = NaN
    /\ IdleExcept("norm")

\* build_data.main calls normalise(df, period)
BuildNormalisePeriod ==
    /\ pc = "norm_start"
    /\ normOut' = BuildNormalise(normCols, normRows)
    /\ normEnroll' = BuildEnrollCol(normCols, 1, {})
    /\ pc' = "norm_build_data"
    /\ UNCHANGED <<normCols, normRows, notNorm>>

\* the dashboard's load loop calls download_period and normalise
DashboardNormalisePeriod ==
    /\ pc = "norm_start"
    /\ normOut' = DashboardNormalise(normCols, normRows)
    /\ normEnroll' = IF InSeq(REPORT_PERIOD, normCols) THEN NaN
                     ELSE DashboardEnrollCol(<<REPORT_PERIOD>> \o normCols)
    /\ pc' = "norm_dashboard"
    /\ UNCHANGED <<normCols, normRows, notNorm>>

NextNorm == BuildNormalisePeriod \/ DashboardNormalisePeriod

SpecNorm == InitNorm /\ [][NextNorm]_vars

NormDone == pc \in {"norm_build_data", "norm_dashboard"}

\* no column name contains ENROLL, MEMBER or BENE
NoEnrollmentLike(cols) ==
    \A i \in 1..Len(cols) :
        /\ ~Contains(cols[i], <<"E","N","R","O","L","L">>)
        /\ ~Contains(cols[i], <<"M","E","M","B","E","R">>)
        /\ ~Contains(cols[i], <<"B","E","N","E">>)

\* C10: a raw table without an enrollment-like column still yields a record
\* for the period, with the same number of rows and an ENROLLMENT column
\* (null on every row); nothing is raised.
C10_NoEnrollmentColumnStillARecord ==
    (NormDone /\ NoEnrollmentLike(normCols)) =>
        /\ normOut.kind = "table"
        /\ normOut.nrows = normRows
        /\ InSeq(ENROLLMENT, normOut.cols)

(***************************************************************************)
(* Specification of the per-period load loop.                              *)
(***************************************************************************)
InitLoop ==
    /\ pc = "loop"
    /\ loopProg \in {"build_data", "rolling", "dashboard"}
    /\ loopIdx = 1
    /\ cache \in [Periods -> CacheInputs]
    /\ loopProg = "dashboard" => cache = [p \in Periods |-> NoCacheFile]
    /\ frames = <<>>
    /\ handled = [p \in Periods |-> "pending"]
    /\ loopState = "running"
    /\ failed = <<>>
    /\ netReq = {}
    /\ hadCache = {p \in Periods : cache[p].state = "file"}
    /\ run = 1
    /\ IdleExcept("loop")

\* the loop body handles the next period and appends it or skips it
HandlePeriod ==
    /\ loopState = "running"
    /\ loopIdx <= MaxPeriods
    /\ \E e \in Envs :
       \E r \in {LoopBody(loopProg, cache[loopIdx], e)} :
          /\ r.end # "raised"
          /\ cache' = [cache EXCEPT ![loopIdx] = r.cache]
          /\ handled' = [handled EXCEPT ![loopIdx] = r.end]
          /\ frames' = IF r.end = "loaded" THEN Append(frames, loopIdx) ELSE frames
          /\ failed' = AppendFailed(loopProg, r.end, failed, loopIdx)
    /\ netReq' = IF RequestsNetwork(loopProg, cache[loopIdx])
                 THEN netReq \cup {loopIdx} ELSE netReq
    /\ loopIdx' = loopIdx + 1
    /\ UNCHANGED <<pc, loopProg, loopState, hadCache, run, notLoop>>

\* an exception leaves the loop body: nothing in main() catches it
PeriodRaises ==
    /\ loopState = "running"
    /\ loopIdx <= MaxPeriods
    /\ \E e \in Envs :
       \E r \in {LoopBody(loopProg, cache[loopIdx], e)} :
          /\ r.end = "raised"
          /\ cache' = [cache EXCEPT ![loopIdx] = r.cache]
          /\ handled' = [handled EXCEPT ![loopIdx] = "raised"]
    /\ netReq' = IF RequestsNetwork(loopProg, cache[loopIdx])
                 THEN netReq \cup {loopIdx} ELSE netReq
    /\ loopState' = "aborted"
    /\ UNCHANGED <<pc, loopProg, loopIdx, frames, failed, hadCache, run, notLoop>>

\* the loop is exhausted
LoopEnds ==
    /\ loopState = "running"
    /\ loopIdx > MaxPeriods
    /\ loopState' = "done"
    /\ UNCHANGED <<pc, loopProg, loopIdx, cache, frames, handled, failed,
                   netReq, hadCache, run, notLoop>>

\* without frames build_data.main raises RuntimeError, the rolling builder
\* returns and the dashboard calls st.stop(); with frames the run goes on
\* to concatenate them and to write or display the dataset
AfterLoop ==
    /\ loopState = "done"
    /\ loopState' = IF NoFrames(frames) THEN "stopped" ELSE "output"
    /\ UNCHANGED <<pc, loopProg, loopIdx, cache, frames, handled, failed,
                   netReq, hadCache, run, notLoop>>

\* the program is run again; the cache files stay
RunAgain ==
    /\ loopState \in {"stopped", "output", "aborted"}
    /\ run < MaxRuns
    /\ run' = run + 1
    /\ loopIdx' = 1
    /\ frames' = <<>>
    /\ failed' = <<>>
    /\ handled' = [p \in Periods |-> "pending"]
    /\ netReq' = {}
    /\ hadCache' = {p \in Periods : cache[p].state = "file"}
    /\ loopState' = "running"
    /\ UNCHANGED <<pc, loopProg, cache, notLoop>>

NextLoop == HandlePeriod \/ PeriodRaises \/ LoopEnds \/ AfterLoop \/ RunAgain

SpecLoop == InitLoop /\ [][NextLoop]_vars

\* C9: a failure while handling one period only skips that period: the loop
\* is never left by an exception, it goes on to every remaining period, and
\* the combined result holds every period that was loaded.
C9_FailureOnlySkipsThePeriod ==
    loopProg \in {"build_data", "rolling"} =>
    /\ loopState # "aborted"
    /\ loopState = "done" =>
          /\ \A p \in Periods : handled[p] \in {"loaded", "skipped"}
          /\ \A p \in Periods :
                handled[p] = "loaded" <=> \E i \in 1..Len(frames) : frames[i] = p

(***************************************************************************)
(* Specification of the pipeline tail.                                     *)
(***************************************************************************)
InitMain ==
    /\ pc = "main_start"
    /\ mainProg \in {"build_data", "dashboard"}
    /\ enrollTable \in EnrollTables(mainProg)
    /\ dirEnv \in DirEnvs
    /\ planDir = NoDataset
    /\ dataset = NoDataset
    /\ IdleExcept("main")

\* plan_dir = load_plan_directory(); an exception it raises ends the run
LoadPlanDirectory ==
    /\ pc = "main_start"
    /\ planDir' = load_plan_directory(mainProg, dirEnv)
    /\ pc' = IF planDir'.kind = "raise" THEN "main_aborted" ELSE "main_dir"
    /\ UNCHANGED <<mainProg, enrollTable, dirEnv, dataset, notMain>>

\* the directory join
PlanDirectoryJoin ==
    /\ pc = "main_dir"
    /\ dataset' = JoinPlanDir(mainProg, enrollTable, planDir)
    /\ pc' = "main_joined"
    /\ UNCHANGED <<mainProg, enrollTable, dirEnv, planDir, notMain>>

\* the contract type; build_data.main then writes enrollment.parquet, the
\* dashboard goes on with the table as its working dataset
ContractType ==
    /\ pc = "main_joined"
    /\ dataset' = ContractTypeStep(dataset)
    /\ pc' = "main_written"
    /\ UNCHANGED <<mainProg, enrollTable, dirEnv, planDir, notMain>>

NextMain == LoadPlanDirectory \/ PlanDirectoryJoin \/ ContractType

SpecMain == InitMain /\ [][NextMain]_vars

MainDone == pc = "main_written"

\* the directory failures: landing page not fetched or without archive
\* link, archive not downloaded or not a zip file, data file not decoded or
\* without rows, no contract or parent column
DirectoryFailed ==
    \/ dirEnv.page # "ok"
    \/ dirEnv.download # "ok"
    \/ dirEnv.zip = "bad"
    \/ dirEnv.zip = "ok" /\ FetchZipSelect(dirEnv.names) # None
                         /\ FetchZipDecode(dirEnv.bytes).kind = "none"
    \/ /\ BuildFetchZipDf(dirEnv).kind = "table"
       /\ \/ ContractCol(mainProg, dirEnv.dir.cols) = NaN
          \/ ParentCol(mainProg, dirEnv.dir.cols) = NaN

\* the label the code table gives the first character of a trimmed,
\* upper-cased identifier
LabelOfFirstChar(id) ==
    LET t == IF id = NaN THEN <<>> ELSE Upper(Strip(id))
        c == IF t = <<>> THEN "" ELSE t[1]
    IN  CASE c = "H" -> <<"L","o","c","a","l"," ","M","A"," ","/"," ","H","M","O"," ","/"," ","C","o","s","t"," ","/"," ","P","A","C","E">>
          [] c = "R" -> <<"R","e","g","i","o","n","a","l"," ","P","P","O">>
          [] c = "S" -> <<"S","t","a","n","d","a","l","o","n","e"," ","P","D","P">>
          [] c = "E" -> <<"E","m","p","l","o","y","e","r"," ","/"," ","U","n","i","o","n"," ","D","i","r","e","c","t">>
          [] c = "9" -> <<"O","t","h","e","r"," ","/"," ","D","e","m","o">>
          [] OTHER   -> <<"O","t","h","e","r">>

LoopOver == loopState \in {"done", "stopped", "output"}

\* C12: when every selected period was skipped the run stops without
\* output, in build_data.main, in the rolling builder and in the dashboard;
\* output is only produced from at least one loaded period.
C12_NoUsablePeriodNoOutput ==
    /\ (loopState \in {"stopped", "output"} /\ \A p \in Periods : handled[p] = "skipped")
          => loopState = "stopped"
    /\ loopState = "output" => \E p \in Periods : handled[p] = "loaded"

\* C12 witness: the dashboard skipped every period and stopped.
C12_Witness ==
    /\ loopProg = "dashboard"
    /\ loopState = "stopped"
    /\ \A p \in Periods : handled[p] = "skipped"

\* C13: after the dashboard's load loop every selected period is either in
\* the loaded frames or in the failed list, and never in both.
C13_LoadedOrFailed ==
    (loopProg = "dashboard" /\ LoopOver) =>
        \A p \in Periods :
            /\ InSeq(p, frames) \/ InSeq(p, failed)
            /\ ~(InSeq(p, frames) /\ InSeq(p, failed))

\* C13 witness: the loop ended with one period loaded and another failed.
C13_Witness ==
    /\ loopProg = "dashboard"
    /\ loopState = "output"
    /\ frames # <<>>
    /\ failed # <<>>

\* C14: in build_data.main and in the rolling builder, a period that had a
\* parsed cache file when the run began is handled without any network
\* request and, when the file has rows, is loaded.
C14_CachedPeriodNeedsNoNetwork ==
    loopProg \in {"build_data", "rolling"} =>
        \A p \in hadCache :
            handled[p] # "pending" =>
                /\ p \notin netReq
                /\ cache[p].nrows > 0 => handled[p] = "loaded"

(***************************************************************************)
(* Specification of the dashboard's filters and period comparison.         *)
(***************************************************************************)
InitCmp ==
    /\ pc = "cmp_start"
    /\ dashDf \in DfInputs
    /\ selection = NoSelection
    /\ filtered = <<>>
    /\ compare = [cur |-> NoPeriod, prev |-> NoPeriod, by |-> "-"]
    /\ kpi = NoKpi
    /\ mom = {}
    /\ IdleExcept("cmp")

\* "Apply filters" for a state of the sidebar
ApplyFilters ==
    /\ pc = "cmp_start"
    /\ \E sel \in SidebarStates(dashDf) :
          /\ selection' = sel
          /\ filtered' = ApplyMask(dashDf, sel)
    /\ pc' = "cmp_filtered"
    /\ UNCHANGED <<dashDf, compare, kpi, mom, notCmp>>

\* the comparison selectors, the KPI row and the table of Tab 4: the
\* previous period is any other period of df, or None when there is none
ComparePeriods ==
    /\ pc = "cmp_filtered"
    /\ \E cur \in PeriodsOf(dashDf), g \in {"STATE", "PARENT_ORGANIZATION"} :
       \E prev \in IF PeriodsOf(dashDf) = {cur} THEN {NoPeriod}
                   ELSE PeriodsOf(dashDf) \ {cur} :
          /\ compare' = [cur |-> cur, prev |-> prev, by |-> g]
          /\ kpi' = KpiRow(filtered, cur, prev)
          /\ mom' = IF prev = NoPeriod THEN {} ELSE MomRows(filtered, g, cur, prev)
    /\ pc' = "cmp_done"
    /\ UNCHANGED <<dashDf, selection, filtered, notCmp>>

NextCmp == ApplyFilters \/ ComparePeriods

SpecCmp == InitCmp /\ [][NextCmp]_vars

CmpDone == pc = "cmp_done"

\* the rows of df that pass every non-empty selection
InScope(rows, sel) ==
    SelectSeq(rows, LAMBDA r :
        /\ sel.parents # {} => r.parent \in sel.parents
        /\ sel.states # {} => r.state \in sel.states
        /\ sel.types # {} => r.ctype \in sel.types
        /\ sel.contracts # {} => r.contract \in sel.contracts)

CurrentTotal == SumEnrollment(OfPeriod(InScope(dashDf, selection), compare.cur))

BaselineTotal == SumEnrollment(OfPeriod(InScope(dashDf, selection), compare.prev))

\* C15: the KPI percentage is absent when there is no baseline period or
\* the baseline total is zero; otherwise it is (current - baseline) /
\* baseline * 100 to the nearest hundredth, with that quotient's sign:
\* 120 against 100 gives +20.00, 80 against 100 gives -20.00.
C15_KpiPercentage ==
    CmpDone =>
        /\ (compare.prev = NoPeriod \/ BaselineTotal = 0) => kpi.mom_pct = Absent
        /\ (compare.prev # NoPeriod /\ BaselineTotal # 0) =>
              /\ kpi.mom_pct.kind = "num"
              /\ 2 * Abs(kpi.mom_pct.val * BaselineTotal
                         - (CurrentTotal - BaselineTotal) * 10000) <= Abs(BaselineTotal)
              /\ CurrentTotal > BaselineTotal => kpi.mom_pct.val >= 0
              /\ CurrentTotal < BaselineTotal => kpi.mom_pct.val <= 0
        /\ (compare.prev # NoPeriod /\ CurrentTotal = 120 /\ BaselineTotal = 100)
              => kpi.mom_pct = Number(2000)
        /\ (compare.prev # NoPeriod /\ CurrentTotal = 80 /\ BaselineTotal = 100)
              => kpi.mom_pct = Number(-2000)

\* C15 witness: 80 against a baseline of 100 gave -20.00 percent.
C15_Witness ==
    /\ CmpDone
    /\ compare.prev # NoPeriod
    /\ kpi.latest_enroll = 80
    /\ kpi.previous_enroll = Number(100)
    /\ kpi.mom_pct = Number(-2000)

\* C16: no row of the per-group comparison table has an infinite or
\* not-a-number percentage; a group whose baseline total is zero has an
\* absent percentage.
C16_NoInfiniteGroupPercentage ==
    CmpDone =>
        \A row \in mom :
            /\ row.CHANGE_PCT.kind \notin {"inf", "-inf", "nan"}
            /\ row.PREVIOUS = 0 => row.CHANGE_PCT = Absent

\* C20: the current and the baseline aggregates, of the KPI row and of the
\* per-group table, are sums over the rows of df that pass every non-empty
\* selection, restricted to the aggregated period only.
C20_SameRowSet ==
    CmpDone =>
        /\ filtered = InScope(dashDf, selection)
        /\ kpi.latest_enroll = CurrentTotal
        /\ compare.prev # NoPeriod => kpi.previous_enroll = Number(BaselineTotal)
        /\ \A row \in mom :
              /\ row.CURRENT = GroupSum(OfPeriod(InScope(dashDf, selection), compare.cur),
                                        compare.by, row.group)
              /\ row.PREVIOUS = GroupSum(OfPeriod(InScope(dashDf, selection), compare.prev),
                                         compare.by, row.group)

\* C20 witness: with a state selected, a baseline period older than the
\* current one was aggregated to a non-zero total over the selected rows.
C20_Witness ==
    /\ CmpDone
    /\ selection.states # {}
    /\ Len(filtered) < Len(dashDf)
    /\ compare.prev # NoPeriod
    /\ compare.prev < compare.cur
    /\ kpi.previous_enroll.kind = "num"
    /\ kpi.previous_enroll.val > 0

\* the columns the written dataset may have
DatasetColumns ==
    { <<"R","E","P","O","R","T","_","P","E","R","I","O","D">>, <<"E","N","R","O","L","L","M","E","N","T">>, <<"S","T","A","T","E">>, <<"C","O","U","N","T","Y">>, <<"C","O","N","T","R","A","C","T","_","I","D">>, <<"C","O","N","T","R","A","C","T","_","N","A","M","E">>, <<"P","A","R","E","N","T","_","O","R","G","A","N","I","Z","A","T","I","O","N">>, <<"C","O","N","T","R","A","C","T","_","T","Y","P","E">> }

\* C17: the dataset build_data.main writes always has REPORT_PERIOD and
\* ENROLLMENT and has no column outside REPORT_PERIOD, ENROLLMENT, STATE,
\* COUNTY, CONTRACT_ID, CONTRACT_NAME, PARENT_ORGANIZATION, CONTRACT_TYPE.
C17_DatasetColumns ==
    (MainDone /\ mainProg = "build_data") =>
        /\ InSeq(<<"R","E","P","O","R","T","_","P","E","R","I","O","D">>, dataset.cols)
        /\ InSeq(<<"E","N","R","O","L","L","M","E","N","T">>, dataset.cols)
        /\ \A i \in 1..Len(dataset.cols) : dataset.cols[i] \in DatasetColumns

\* C18: the directory join leaves the contract identifier of every
\* enrollment row as it was.
C18_JoinKeepsContractId ==
    (pc \in {"main_joined", "main_written"} /\ Len(dataset.rows) = Len(enrollTable.rows)) =>
        \A i \in 1..Len(dataset.rows) : dataset.rows[i].cid = enrollTable.rows[i].cid

\* the identifier trimmed, upper-cased and reduced to letters and digits
NormalisedId(id) == clean_contract_id(id)

\* C19: CONTRACT_TYPE is the directory's plan type when that is non-null on
\* strictly more than half of the joined rows, and otherwise the code-table
\* label of the first character of the normalised identifier.
C19_ContractTypeRule ==
    (MainDone /\ InSeq(CONTRACT_ID, enrollTable.cols)) =>
        \A i \in 1..Len(dataset.rows) :
            dataset.rows[i].ctype =
                IF 2 * Cardinality({j \in 1..Len(dataset.rows) : dataset.rows[j].ptype # NaN})
                       > Len(dataset.rows)
                THEN dataset.rows[i].ptype
                ELSE LabelOfFirstChar(NormalisedId(dataset.rows[i].cid))

\* C21: the filtered view is exactly the rows of the working dataset that
\* pass every non-empty selection, whatever options the sidebar offered,
\* and building it leaves the working dataset as it was.
C21_ViewIsSelectedRows ==
    [][(pc = "cmp_start" /\ pc' = "cmp_filtered") =>
          /\ filtered' = InScope(dashDf, selection')
          /\ dashDf' = dashDf]_vars

\* C21 witness: a contract selection left a proper, non-empty part of the
\* working dataset in the view.
C21_Witness ==
    /\ pc = "cmp_filtered"
    /\ selection.contracts # {}
    /\ filtered # <<>>
    /\ Len(filtered) < Len(dashDf)

\* the grouping values with at least one row of the view in a period
GroupsIn(period) ==
    { GroupKey(InScope(dashDf, selection)[i], compare.by) :
        i \in { j \in 1..Len(InScope(dashDf, selection)) :
                  InScope(dashDf, selection)[j].period = period } } \ {NaN}

\* C22: the comparison table has exactly one row for each grouping value
\* that has rows in both the current and the baseline period, none for a
\* value found in one period only, and CHANGE = CURRENT - PREVIOUS in
\* every row.
C22_InnerJoinOfGroups ==
    (CmpDone /\ compare.prev # NoPeriod) =>
        /\ {row.group : row \in mom} = GroupsIn(compare.cur) \cap GroupsIn(compare.prev)
        /\ Cardinality(mom) = Cardinality(GroupsIn(compare.cur) \cap GroupsIn(compare.prev))
        /\ \A row \in mom : row.CHANGE = row.CURRENT - row.PREVIOUS

\* C22 witness: one state had rows in both periods and got a row, another
\* had rows in one period only and got none.
C22_Witness ==
    /\ CmpDone
    /\ compare.prev # NoPeriod
    /\ compare.by = "STATE"
    /\ mom # {}
    /\ (GroupsIn(compare.cur) \cup GroupsIn(compare.prev)) \ {row.group : row \in mom} # {}

\* C28: whenever a baseline period is selected the KPI row reports the
\* signed delta current total - baseline total, a zero baseline included.
C28_DeltaAlwaysReported ==
    (CmpDone /\ compare.prev # NoPeriod) =>
        kpi.mom_delta = Number(CurrentTotal - BaselineTotal)

\* the least element of a non-empty set of positions
FirstPosition(S) == CHOOSE i \in S : \A j \in S : i <= j

\* the positions of the archive's members that pass the first exclusion
\* pass, or, when there are none, those that pass the "read" filter
CandidatePositions ==
    LET strict  == { i \in 1..Len(arcNames) : IsCandidate(arcNames[i]) }
        relaxed == { i \in 1..Len(arcNames) : IsFallbackCandidate(arcNames[i]) }
    IN  IF strict # {} THEN strict ELSE relaxed

\* C23: _fetch_zip_df selects the first candidate in archive order whose
\* name matches the preferred-name pattern when one does, otherwise the
\* first candidate; the relaxed pass applies only when the first pass
\* leaves no candidate; no candidate means no member.
C23_PreferredThenFirst ==
    pc = "arc_fetch_zip_df" =>
        LET preferred == { i \in CandidatePositions : DATA_RE(arcNames[i]) }
        IN  IF CandidatePositions = {} THEN arcSel = None
            ELSE IF preferred # {} THEN arcSel = arcNames[FirstPosition(preferred)]
            ELSE arcSel = arcNames[FirstPosition(CandidatePositions)]

\* C23 witness: a preferred name was selected over an earlier candidate.
C23_Witness ==
    /\ pc = "arc_fetch_zip_df"
    /\ arcSel # None
    /\ DATA_RE(arcSel)
    /\ CandidatePositions # {}
    /\ arcNames[FirstPosition(CandidatePositions)] # arcSel

\* the canonical roles a raw column can be given
CanonicalRoles == {STATE_COL, COUNTY, CONTRACT_ID, CONTRACT_NAME, ENROLLMENT}

\* C24: the table schema normalisation returns has at most one column for
\* each canonical role, for every sequence of raw column names.
C24_OneColumnPerRole ==
    (NormDone /\ normOut.kind = "table") =>
        \A role \in CanonicalRoles : CountIn(role, normOut.cols) <= 1

\* a column name that contains ENROLL, MEMBER or BENE and not REPORT
EnrollmentLike(c) ==
    /\ \/ Contains(c, <<"E","N","R","O","L","L">>)
       \/ Contains(c, <<"M","E","M","B","E","R">>)
       \/ Contains(c, <<"B","E","N","E">>)
    /\ ~Contains(c, <<"R","E","P","O","R","T">>)

\* C25: the enrollment column is the one named ENROLLED whenever there is
\* one, wherever it stands; otherwise the first column whose name contains
\* ENROLL, MEMBER or BENE and not REPORT; otherwise none.
C25_EnrolledFirst ==
    NormDone =>
        normEnroll =
            IF \E i \in 1..Len(normCols) : normCols[i] = <<"E","N","R","O","L","L","E","D">>
            THEN <<"E","N","R","O","L","L","E","D">>
            ELSE IF \E i \in 1..Len(normCols) : EnrollmentLike(normCols[i])
            THEN normCols[FirstPosition({i \in 1..Len(normCols) : EnrollmentLike(normCols[i])})]
            ELSE NaN

\* the directory entries, by position in the directory file, whose
\* normalised identifier equals that of id
MatchedEntries(id) ==
    { j \in 1..Len(dirEnv.dir.rows) :
        /\ dirEnv.dir.rows[j].cid # NaN
        /\ NormalisedId(dirEnv.dir.rows[j].cid) = NormalisedId(id) }

\* C26: after the join with a loaded directory a row has a parent
\* organization exactly when its normalised identifier equals the
\* normalised identifier of a directory entry, the value then being the
\* consolidated parent name of such an entry; the rows stand for the same
\* normalised identifiers as the enrollment rows.
C26_ParentIffKeyMatches ==
    (pc \in {"main_joined", "main_written"} /\ planDir.rows # <<>>
        /\ InSeq(CONTRACT_ID, enrollTable.cols)) =>
        /\ {NormalisedId(dataset.rows[i].cid) : i \in 1..Len(dataset.rows)}
             = {NormalisedId(enrollTable.rows[i].cid) : i \in 1..Len(enrollTable.rows)}
        /\ \A i \in 1..Len(dataset.rows) :
              /\ dataset.rows[i].parent # NaN <=> MatchedEntries(dataset.rows[i].cid) # {}
              /\ dataset.rows[i].parent # NaN =>
                    \E j \in MatchedEntries(dataset.rows[i].cid) :
                        dataset.rows[i].parent =
                            consolidate_parent_org(AsStr(dirEnv.dir.rows[j].parent))

\* C26 witness: an enrollment identifier with punctuation was matched to a
\* directory entry written in lower case with a hyphen and padding, and
\* another row of the same table was matched to nothing.
C26_Witness ==
    /\ pc = "main_joined"
    /\ planDir.rows # <<>>
    /\ enrollTable.rows[1].cid = <<"-","H","1">>
    /\ \A j \in 1..Len(dirEnv.dir.rows) : dirEnv.dir.rows[j].cid = <<"h","-","1"," ">>
    /\ dataset.rows[1].parent # NaN
    /\ \E i \in 1..Len(dataset.rows) : dataset.rows[i].parent = NaN

(***************************************************************************)
(* Specification of the dashboard's join diagnostics over script runs.     *)
(***************************************************************************)
InitDiag ==
    /\ pc = "diag_start"
    /\ diagEnv \in DirEnvs
    /\ memo = NoDataset
    /\ diagGlobals = ResetGlobals
    /\ reported = NoReport
    /\ diagRun = 1
    /\ IdleExcept("diag")

\* plan_dir = load_plan_directory(): the body runs when no entry is stored,
\* and its return value is stored; an exception is not stored
CallLoadPlanDirectory ==
    /\ pc = "diag_start"
    /\ IF memo.kind = "none"
       THEN \E r \in {load_plan_directory("dashboard", diagEnv)} :
               /\ memo' = IF r.kind = "raise" THEN memo ELSE r
               /\ diagGlobals' = GlobalsAfterBody(diagEnv, diagGlobals)
               /\ pc' = IF r.kind = "raise" THEN "diag_aborted" ELSE "diag_loaded"
       ELSE /\ UNCHANGED <<memo, diagGlobals>>
            /\ pc' = "diag_loaded"
    /\ UNCHANGED <<diagEnv, reported, diagRun, notDiag>>

\* the join branch with its diagnostics expander, or the no-directory branch
ShowDiagnostics ==
    /\ pc = "diag_loaded"
    /\ reported' = IF memo.rows # <<>> THEN Report(diagGlobals) ELSE NoReport
    /\ pc' = "diag_shown"
    /\ UNCHANGED <<diagEnv, memo, diagGlobals, diagRun, notDiag>>

\* a widget interaction: the script runs again from its first line, which
\* assigns the module-level globals anew
Rerun ==
    /\ pc = "diag_shown"
    /\ diagRun < MaxRuns
    /\ diagRun' = diagRun + 1
    /\ diagGlobals' = ResetGlobals
    /\ reported' = NoReport
    /\ pc' = "diag_start"
    /\ UNCHANGED <<diagEnv, memo, notDiag>>

\* ttl=86400: the stored entry expires
CacheExpires ==
    /\ pc = "diag_shown"
    /\ memo.kind = "table"
    /\ memo' = NoDataset
    /\ UNCHANGED <<pc, diagEnv, diagGlobals, reported, diagRun, notDiag>>

NextDiag == CallLoadPlanDirectory \/ ShowDiagnostics \/ Rerun \/ CacheExpires

SpecDiag == InitDiag /\ [][NextDiag]_vars

\* C27: on every run of the dashboard in which load_plan_directory gives a
\* non-empty directory, a run served from the stored entry included, the
\* diagnostics name the raw directory columns chosen as contract column
\* and as parent column.
C27_DiagnosticsNameColumns ==
    (pc = "diag_shown" /\ memo.kind = "table" /\ memo.rows # <<>>) =>
        /\ reported.shown
        /\ reported.contract_col = ContractCol("dashboard", diagEnv.dir.cols)
        /\ reported.parent_col = ParentCol("dashboard", diagEnv.dir.cols)

\* C29: whenever the dataset has a CONTRACT_ID column every row of the
\* final dataset has a CONTRACT_TYPE value, whichever branch gave it, rows
\* matched to no directory entry included.
C29_ContractTypeNeverNull ==
    (MainDone /\ InSeq(CONTRACT_ID, dataset.cols)) =>
        \A i \in 1..Len(dataset.rows) : dataset.rows[i].ctype # NaN

\* C30: in build_data.main and in the rolling builder a period that ends
\* a run skipped, and had no cache file when the run began, has no cache
\* file after it.
C30_SkippedPeriodNotCached ==
    loopProg \in {"build_data", "rolling"} =>
        \A p \in Periods :
            (handled[p] = "skipped" /\ p \notin hadCache) => cache[p].state # "file"

====
